---- MODULE Spec2Model ----
(***************************************************************************)
(* PyWebScrapBook: the static site generator (scrapbook/cache.py) and the  *)
(* indexer with its favicon cacher (scrapbook/indexer.py).                 *)
(*                                                                         *)
(* Every generator of the code is modelled as a machine whose actions run  *)
(* from one `yield` to the next: the state after an action is the state    *)
(* the consumer of the event stream sees at that suspension point.         *)
(***************************************************************************)
EXTENDS Integers, Sequences, FiniteSets, TLC

VARIABLES
    meta,           \* book.meta: id -> item (a function on the ids present)
    toc,            \* book.toc: parent id -> sequence of child ids
    wpc,            \* _generate_static_index: "init" | "run" | "done"
    stack,          \* the active add_child_items() calls, innermost last
    level,          \* nonlocal level
    id_chain,       \* id_chain
    events,         \* the StaticIndexItem events yielded so far
    fs,             \* the files below the book's top directory: path -> bytes
    ops,            \* the backup() calls and file writes made, in order
    static_index,   \* StaticSiteGenerator.static_index
    bpc,            \* StaticSiteGenerator.run: which run, which artifact, last yield
    blog,           \* the Info events the runs have yielded
    faults,         \* the filesystem errors (OSError) raised so far
    fsStart,        \* the files as they were when each run() started
    renders,        \* the pages rendered: which, and with what static_index
    files,          \* Indexer.run(files): the batch
    handlers,       \* Indexer.handle_*_meta
    fi,             \* the number of the file Indexer.run is at
    ipc,            \* Indexer.run: the last yield, "done", or "raised"
    cur,            \* _index_file: the id it registered and how it got it
    indexed,        \* Indexer.run: indexed, in insertion order
    now,            \* the last reading of the clock, in milliseconds
    meta0,          \* book.meta as it was when the current file was begun
    ilog,           \* the Info events Indexer.run / FavIconCacher.run yielded
    fav,            \* FavIconCacher: its flags, item_ids, the position in them
    fpc,            \* FavIconCacher.run: the last yield, "done", or "raised"
    floc,           \* cache_fh: fdst and the bytes read
    cached,         \* FavIconCacher.run: cached
    gcfg,           \* generate(): the configured books and the arguments
    gpc,            \* generate(): the last yield, or how the stream ended
    gk,             \* generate(): the position in the books it goes through
    grun,           \* the yields of generator.run() for the current book
    glog,           \* the Info events generate() has yielded
    gcalls,         \* the calls generate() has made on the host and the books
    ddata,          \* MutatingDict: self.data, key -> value
    dkeys,          \* MutatingDict: self._keys
    dit,            \* an iterator iter(d): whether it is active, its position
    dseen,          \* the keys the iterator has yielded, in order
    dlog,           \* the operations made on the dict and its iterator, in order
    fruns           \* the FavIconCacher.run calls that have returned: what each
                    \* was given and what it answered

walkVars == <<meta, toc, wpc, stack, level, id_chain, events>>

buildVars == <<fs, ops, static_index, bpc, blog, faults, fsStart, renders>>

indexVars == <<files, handlers, fi, ipc, cur, indexed, now, meta0>>

favVars == <<ilog, fav, fpc, floc, cached>>

\* the state of generate()
genVars == <<gcfg, gpc, gk, grun, glog, gcalls>>

\* the state of a MutatingDict and of an iterator over it
dictVars == <<ddata, dkeys, dit, dseen, dlog>>

\* what the indexer and the favicon cacher never touch
otherVars == <<toc, wpc, stack, level, id_chain, events,
               static_index, bpc, blog, fsStart, renders, genVars,
               dictVars, fruns>>

vars == <<walkVars, buildVars, indexVars, favVars, genVars, dictVars, fruns>>

----------------------------------------------------------------------------
(* Bounds *)

\* total number of child entries of the TOCs that are walked
MaxEdges == 3

\* the interpreter's limit on nested add_child_items() calls
MaxDepth == 5

\* the entries of RESOURCES, from the first, that the modelled runs stage
MaxResources == 2

\* the filesystem errors a behaviour may contain
MaxFaults == 1

\* the files of a batch handed to Indexer.run
MaxFiles == 2

\* the latest reading of the clock, in milliseconds after the first
MaxClock == 1

\* the book ids a call of generate() names
MaxBooks == 2

\* the events generator.run() yields for one book
MaxRunYields == 2

\* the assignments and deletions made on a MutatingDict
MaxDictOps == 4

----------------------------------------------------------------------------
(* Values *)

NoneVal == "<None>"

\* A URL as urlsplit() sees it.
Url(scheme, netloc, path, fragment) ==
    [scheme |-> scheme, netloc |-> netloc, path |-> path, fragment |-> fragment]

EmptyUrl == Url("", "", <<>>, "")

\* book.data_dir and book.tree_dir, as paths below the book's top directory
data_dir == <<>>

tree_dir == <<".wsb", "tree">>

Item(type, index, title, source, icon) ==
    [type |-> type, index |-> index, title |-> title, source |-> source,
     icon |-> icon]

----------------------------------------------------------------------------
(* util.get_relative_url: the URL of `path` relative to the directory      *)
(* `start`, both given as sequences of path components.                    *)

RECURSIVE CommonPrefixLen(_, _)
CommonPrefixLen(p, q) ==
    IF p = <<>> \/ q = <<>> \/ Head(p) # Head(q) THEN 0
    ELSE 1 + CommonPrefixLen(Tail(p), Tail(q))

Ups(n) == [i \in 1..n |-> ".."]

GetRelativeUrl(path, start) ==
    LET k == CommonPrefixLen(path, start)
    IN  Ups(Len(start) - k) \o SubSeq(path, k + 1, Len(path))

\* os.path.dirname of a relative path
DirName(path) == IF path = <<>> THEN <<>> ELSE SubSeq(path, 1, Len(path) - 1)

----------------------------------------------------------------------------
(* The parts of the state a specification does not exercise *)

WalkIdle ==
    /\ wpc = "init"
    /\ stack = <<>>
    /\ level = 0
    /\ id_chain = {}
    /\ events = <<>>

BuildIdle ==
    /\ fs = <<>>
    /\ ops = <<>>
    /\ static_index = FALSE
    /\ bpc = [run |-> 0, k |-> 0, at |-> "idle"]
    /\ blog = <<>>
    /\ faults = 0
    /\ fsStart = <<>>
    /\ renders = <<>>

IndexIdle ==
    /\ files = <<>>
    /\ handlers = [ie |-> TRUE, singlefile |-> TRUE, savepagewe |-> TRUE,
                   maoxian |-> TRUE]
    /\ fi = 0
    /\ ipc = "idle"
    /\ cur = [id |-> "", synth |-> FALSE, ts |-> 0]
    /\ indexed = <<>>
    /\ now = 0
    /\ meta0 = <<>>

GenIdle ==
    /\ gcfg = [books |-> <<>>, no_tree |-> {}, book_ids |-> <<>>,
               no_backup |-> TRUE, no_lock |-> TRUE, static_site |-> FALSE]
    /\ gpc = "idle"
    /\ gk = 0
    /\ grun = 0
    /\ glog = <<>>
    /\ gcalls = <<>>

DictIdle ==
    /\ ddata = <<>>
    /\ dkeys = <<>>
    /\ dit = [at |-> "none", i |-> 0]
    /\ dseen = <<>>
    /\ dlog = <<>>

\* no call of FavIconCacher.run has returned
NoEarlierRun == fruns = <<>>

FavIdle ==
    /\ ilog = <<>>
    /\ fav = [cache_url |-> TRUE, cache_archive |-> FALSE, cache_file |-> FALSE,
              item_ids |-> <<>>, k |-> 0, caller |-> "run"]
    /\ fpc = "idle"
    /\ floc = [fdst |-> <<>>, bytes |-> <<>>]
    /\ cached = <<>>

----------------------------------------------------------------------------
(* StaticSiteGenerator._generate_static_index                              *)

WalkIds == {"root", "a", "b"}

\* The items the walked books hold under each id.
WalkItem(id) ==
    CASE id = "a" -> Item("folder", <<>>, "Folder", EmptyUrl, EmptyUrl)
      [] id = "b" -> Item("", <<"20200101000000000", "index.html">>, "",
                          Url("http", "example.com", <<"page">>, "1"),
                          Url("", "", <<"favicon.ico">>, ""))
      [] OTHER    -> Item("bookmark", <<>>, "Top",
                          Url("http", "example.com", <<>>, ""),
                          Url("http", "example.com", <<"favicon.ico">>, ""))

\* the children that are in the store, last first
FilteredTocReversed(parent_id) ==
    IF parent_id \notin DOMAIN toc THEN <<>>
    ELSE LET kept == SelectSeq(toc[parent_id], LAMBDA id : id \in DOMAIN meta)
         IN  [k \in DOMAIN kept |-> kept[Len(kept) + 1 - k]]

\* toc = [id for id in toc if id in book.meta], and [] after a KeyError
FilteredToc(parent_id) ==
    IF parent_id \notin DOMAIN toc THEN <<>>
    ELSE SelectSeq(toc[parent_id], LAMBDA id : id \in DOMAIN meta)

\* `id not in id_chain`, negated
InChainSelfOnly(id, chain, parent_id) == id = parent_id

\* a guard that remembers every item shown so far, not the current path
InChainOrShown(id, chain, parent_id) ==
    \/ id \in chain
    \/ \E i \in 1..(Len(events) - 1) :
          events[i].event = "start" /\ events[i].id = id

InChain(id, chain, parent_id) == id \in chain

\* the title as stored, with no `or id`
ItemTitleStored(id) == meta[id].title

ItemTitle(id) ==
    LET m == meta[id]
    IN  IF m.type # "separator" THEN (IF m.title # "" THEN m.title ELSE id)
        ELSE m.title

\* lines 226-237 without lines 231-233
ItemHrefNoFragment(id) ==
    LET m == meta[id]
    IN  IF m.type = "separator" \/ m.type = "folder" THEN EmptyUrl
        ELSE IF m.type = "bookmark" /\ m.source # EmptyUrl THEN m.source
        ELSE IF m.index # <<>>
             THEN Url("", "", GetRelativeUrl(data_dir \o m.index, tree_dir), "")
        ELSE EmptyUrl

ItemHref(id) ==
    LET m == meta[id]
    IN  IF m.type = "separator" \/ m.type = "folder" THEN EmptyUrl
        ELSE IF m.type = "bookmark" /\ m.source # EmptyUrl THEN m.source
        ELSE IF m.index # <<>>
             THEN Url("", "", GetRelativeUrl(data_dir \o m.index, tree_dir),
                      m.source.fragment)
        ELSE EmptyUrl

\* lines 239-250 with the stored icon taken as it is
ItemIconVerbatim(id) ==
    IF meta[id].type = "separator" THEN EmptyUrl ELSE meta[id].icon

ItemIcon(id) ==
    LET m == meta[id]
    IN  IF m.type = "separator" THEN EmptyUrl
        ELSE IF m.icon # EmptyUrl /\ m.icon.scheme = ""
             THEN [m.icon EXCEPT !.path =
                      GetRelativeUrl(data_dir \o DirName(m.index), tree_dir) \o @]
        ELSE m.icon

\* the container events with `level -= 1` (line 264) after the yield
ContainerEventBeforeDecrement(ev, lv) ==
    [event |-> ev, level |-> IF ev = "end-container" THEN lv + 1 ELSE lv,
     id |-> NoneVal, type |-> NoneVal,
     title |-> NoneVal, url |-> EmptyUrl, icon |-> EmptyUrl]

ContainerEvent(ev, lv) ==
    [event |-> ev, level |-> lv, id |-> NoneVal, type |-> NoneVal,
     title |-> NoneVal, url |-> EmptyUrl, icon |-> EmptyUrl]

ItemEvent(ev, lv, id) ==
    [event |-> ev, level |-> lv, id |-> id, type |-> meta[id].type,
     title |-> ItemTitle(id), url |-> ItemHref(id), icon |-> ItemIcon(id)]

Frame(parent_id, ftoc, i, pos) ==
    [parent_id |-> parent_id, toc |-> ftoc, i |-> i, pos |-> pos]

Top == stack[Len(stack)]

SetTop(f) == [stack EXCEPT ![Len(stack)] = f]

\* level = 0; id_chain = {'root'}; yield from add_child_items('root')
WalkStart ==
    /\ wpc = "init"
    /\ level' = 0
    /\ id_chain' = {"root"}
    /\ IF FilteredToc("root") = <<>>
       THEN /\ wpc' = "done"
            /\ UNCHANGED <<stack, events>>
       ELSE /\ wpc' = "run"
            /\ stack' = <<Frame("root", FilteredToc("root"), 0, "sc")>>
            /\ events' = Append(events, ContainerEvent("start-container", 0))
    /\ UNCHANGED <<meta, toc>>
    /\ UNCHANGED <<buildVars, indexVars, favVars, genVars, dictVars, fruns>>

\* resumed after `yield start-container`: level += 1, the first child's start
WalkAfterStartContainer ==
    /\ wpc = "run"
    /\ Top.pos = "sc"
    /\ level' = level + 1
    /\ stack' = SetTop([Top EXCEPT !.i = 1, !.pos = "start"])
    /\ events' = Append(events, ItemEvent("start", level + 1, Top.toc[1]))
    /\ UNCHANGED <<meta, toc, wpc, id_chain>>
    /\ UNCHANGED <<buildVars, indexVars, favVars, genVars, dictVars, fruns>>

\* resumed after `yield start`: the children of the item unless it is circular
WalkAfterStart ==
    /\ wpc = "run"
    /\ Top.pos = "start"
    /\ LET id == Top.toc[Top.i]
       IN  IF InChain(id, id_chain, Top.parent_id) \/ FilteredToc(id) = <<>>
           THEN \* no child call, or one that returns without a yield
                /\ stack' = SetTop([Top EXCEPT !.pos = "end"])
                /\ events' = Append(events, ItemEvent("end", level, id))
                /\ UNCHANGED <<level, id_chain>>
           ELSE /\ Len(stack) < MaxDepth
                /\ level' = level + 1
                /\ id_chain' = id_chain \cup {id}
                /\ stack' = Append(SetTop([Top EXCEPT !.pos = "call"]),
                                   Frame(id, FilteredToc(id), 0, "sc"))
                /\ events' = Append(events,
                                    ContainerEvent("start-container", level + 1))
    /\ UNCHANGED <<meta, toc, wpc>>
    /\ UNCHANGED <<buildVars, indexVars, favVars, genVars, dictVars, fruns>>

\* resumed after `yield end`: the next child, or the end of the container
WalkAfterEnd ==
    /\ wpc = "run"
    /\ Top.pos = "end"
    /\ IF Top.i < Len(Top.toc)
       THEN /\ stack' = SetTop([Top EXCEPT !.i = @ + 1, !.pos = "start"])
            /\ events' = Append(events,
                                ItemEvent("start", level, Top.toc[Top.i + 1]))
            /\ UNCHANGED level
       ELSE /\ level' = level - 1
            /\ stack' = SetTop([Top EXCEPT !.pos = "ec"])
            /\ events' = Append(events,
                                ContainerEvent("end-container", level - 1))
    /\ UNCHANGED <<meta, toc, wpc, id_chain>>
    /\ UNCHANGED <<buildVars, indexVars, favVars, genVars, dictVars, fruns>>

\* resumed after `yield end-container`: the call returns to its caller
WalkAfterEndContainer ==
    /\ wpc = "run"
    /\ Top.pos = "ec"
    /\ IF Len(stack) = 1
       THEN /\ stack' = <<>>
            /\ wpc' = "done"
            /\ UNCHANGED <<level, id_chain, events>>
       ELSE LET caller == stack[Len(stack) - 1]
                id == caller.toc[caller.i]
            IN  /\ id_chain' = id_chain \ {id}
                /\ level' = level - 1
                /\ stack' = [SubSeq(stack, 1, Len(stack) - 1)
                                EXCEPT ![Len(stack) - 1] =
                                    [caller EXCEPT !.pos = "end"]]
                /\ events' = Append(events, ItemEvent("end", level - 1, id))
                /\ UNCHANGED wpc
    /\ UNCHANGED <<meta, toc>>
    /\ UNCHANGED <<buildVars, indexVars, favVars, genVars, dictVars, fruns>>

NextWalk ==
    \/ WalkStart
    \/ WalkAfterStartContainer
    \/ WalkAfterStart
    \/ WalkAfterEnd
    \/ WalkAfterEndContainer

\* the sequences over S of length at most n
RECURSIVE SeqsUpTo(_, _)
SeqsUpTo(S, n) ==
    IF n = 0 THEN {<<>>}
    ELSE LET shorter == SeqsUpTo(S, n - 1)
         IN  shorter \cup {Append(s, x) : s \in shorter, x \in S}

\* The TOCs walked: every parent's child list, MaxEdges entries in all; a
\* parent without children either has an empty list or no entry at all.
WalkTocs ==
    LET full == UNION UNION {{{
                    [p \in WalkIds |-> CASE p = "root" -> r [] p = "a" -> x
                                            [] OTHER -> y] :
                        y \in SeqsUpTo(WalkIds, MaxEdges - Len(r) - Len(x))} :
                        x \in SeqsUpTo(WalkIds, MaxEdges - Len(r))} :
                        r \in SeqsUpTo(WalkIds, MaxEdges)}
    IN  full \cup {[p \in {q \in WalkIds : t[q] # <<>>} |-> t[p]] : t \in full}

InitWalk ==
    /\ meta \in {[id \in S |-> WalkItem(id)] : S \in SUBSET WalkIds}
    /\ toc \in WalkTocs
    /\ WalkIdle
    /\ BuildIdle
    /\ IndexIdle
    /\ FavIdle
    /\ GenIdle
    /\ DictIdle
    /\ NoEarlierRun

\* The consumer (the template) pulls the events until the generator ends.
SpecWalk == InitWalk /\ [][NextWalk]_vars /\ WF_vars(NextWalk)

----------------------------------------------------------------------------
(* Properties of the tree walk *)

Range(s) == {s[i] : i \in DOMAIN s}

\* the ids of the `start` events of evs that no `end` has closed, outermost first
RECURSIVE OpenStarts(_)
OpenStarts(evs) ==
    IF evs = <<>> THEN <<>>
    ELSE LET before == OpenStarts(SubSeq(evs, 1, Len(evs) - 1))
             e == evs[Len(evs)]
         IN  IF e.event = "start" THEN Append(before, e.id)
             ELSE IF e.event = "end" THEN SubSeq(before, 1, Len(before) - 1)
             ELSE before

\* event i starts an item that is `root` or one of its own ancestors
Reoccurs(i) ==
    /\ events[i].event = "start"
    /\ \/ events[i].id = "root"
       \/ events[i].id \in Range(OpenStarts(SubSeq(events, 1, i - 1)))

\* C1: for every finite metadata store and TOC, cyclic ones included, the
\* walk started at root ends, having emitted finitely many render events.
C1_WalkTerminates == <>(wpc = "done")

\* a finished walk of a TOC in which an item is among its own descendants
C1_Witness ==
    /\ wpc = "done"
    /\ \E i \in DOMAIN events : Reoccurs(i)
    /\ \E p \in DOMAIN toc : \E k \in DOMAIN toc[p] : toc[p][k] = p

\* C2: a child id that is on the current ancestor path (or is root) gets one
\* `start` event immediately followed by its `end` event, same id and level,
\* with no container or child event in between.
C2_CircularItemIsLeaf ==
    \A i \in DOMAIN events :
        Reoccurs(i) =>
            IF i < Len(events)
            THEN events[i + 1] = [events[i] EXCEPT !.event = "end"]
            ELSE wpc = "run"

\* a circular occurrence of an item that has children to show
C2_Witness ==
    /\ wpc = "done"
    /\ \E i \in DOMAIN events :
          /\ Reoccurs(i)
          /\ events[i].id # "root"
          /\ FilteredToc(events[i].id) # <<>>

----------------------------------------------------------------------------
(* StaticSiteGenerator.run, _generate_resource_file, _generate_page        *)

\* StaticSiteGenerator.RESOURCES, in the order of the dict
RESOURCES ==
    << <<"icon", "toggle.png">>, <<"icon", "search.png">>,
       <<"icon", "collapse.png">>, <<"icon", "expand.png">>,
       <<"icon", "external.png">>, <<"icon", "comment.png">>,
       <<"icon", "item.png">>, <<"icon", "fclose.png">>,
       <<"icon", "fopen.png">>, <<"icon", "file.png">>,
       <<"icon", "note.png">>, <<"icon", "postit.png">> >>

\* the pages run() generates, in its order
PAGES == << <<"index.html">>, <<"map.html">>, <<"frame.html">>, <<"search.html">> >>

IsPage(dst) == dst \in Range(PAGES)

\* The artifacts of one run, in order: the resources, then the pages, with
\* index.html only `if self.static_index`.
Artifacts ==
    SubSeq(RESOURCES, 1, MaxResources)
        \o SelectSeq(PAGES, LAMBDA dst : dst # <<"index.html">> \/ static_index)

\* the static_index argument of the templates, with the walk handed to
\* map.html as well
PageStaticIndexOfMapToo(dst) ==
    IF dst \in {<<"index.html">>, <<"map.html">>} THEN "walk" ELSE "unset"

\* the static_index argument _generate_page renders the template with: the
\* generator self._generate_static_index() returns for index.html, None for
\* map.html, not passed for the others
PageStaticIndex(dst) ==
    CASE dst = <<"index.html">> -> "walk"
      [] dst = <<"map.html">> -> NoneVal
      [] OTHER -> "unset"

\* fdst = os.path.normpath(os.path.join(self.book.tree_dir, dst))
Fdst(dst) == tree_dir \o dst

\* File contents are byte strings; two byte values are enough here.
Bytes == {0, 1}

\* The bytes of the static file behind a resource, or of the rendered page:
\* they do not change while the templates, assets, metadata and TOC are left
\* alone.
FreshContent(dst) == IF IsPage(dst) THEN <<1, 0>> ELSE <<0, 1>>

\* os.stat(f).st_size, fsrc.getbuffer().nbytes
FileSize(content) == Len(content)

\* util.checksum: a digest of the bytes, no two byte strings sharing one
RECURSIVE Checksum(_)
Checksum(content) ==
    IF content = <<>> THEN 1
    ELSE 2 * Checksum(SubSeq(content, 1, Len(content) - 1))
            + content[Len(content)]

\* "check whether writing is required": TRUE when it is not
\* (without fsrc.seek(0) the checksum is taken of what follows the bytes written)
UpToDateNoSeek(dst) ==
    /\ Fdst(dst) \in DOMAIN fs
    /\ FileSize(FreshContent(dst)) = FileSize(fs[Fdst(dst)])
    /\ Checksum(<<>>) = Checksum(fs[Fdst(dst)])

UpToDateSizeOnly(dst) ==
    /\ Fdst(dst) \in DOMAIN fs
    /\ FileSize(FreshContent(dst)) = FileSize(fs[Fdst(dst)])

UpToDate(dst) ==
    /\ Fdst(dst) \in DOMAIN fs
    /\ FileSize(FreshContent(dst)) = FileSize(fs[Fdst(dst)])
    /\ Checksum(FreshContent(dst)) = Checksum(fs[Fdst(dst)])

\* an Info event, tagged with the run() that yielded it
Info(lv, what, dst, run) ==
    [level |-> lv, what |-> what, dst |-> dst, run |-> run]

Op(op, path, run) == [op |-> op, path |-> path, run |-> run]

WriteFile(tree, path, content) ==
    [q \in DOMAIN tree \cup {path} |-> IF q = path THEN content ELSE tree[q]]

ProperPrefixes(content) == {SubSeq(content, 1, n) : n \in 0..(Len(content) - 1)}

\* How the `try` block of "save file" can end: normally, or with an OSError
\* raised by makedirs, by backup, by opening the destination, or while
\* copying (the destination is truncated by then and holds what was copied).
WriteOutcomes ==
    {[at |-> "ok", part |-> <<>>]}
        \cup (IF faults < MaxFaults
              THEN {[at |-> a, part |-> <<>>] : a \in {"makedirs", "backup", "open"}}
              ELSE {})

CopyFailures(content) ==
    IF faults < MaxFaults
    THEN {[at |-> "copy", part |-> c] : c \in ProperPrefixes(content)}
    ELSE {}

\* the first yield of whatever follows artifact k: the next artifact's
\* 'Checking', or the end of run()
BuildAdvance(k, log) ==
    IF k < Len(Artifacts)
    THEN /\ bpc' = [bpc EXCEPT !.k = k + 1, !.at = "checking"]
         /\ blog' = Append(log, Info("debug", "Checking", Artifacts[k + 1], bpc.run))
    ELSE /\ bpc' = [bpc EXCEPT !.k = k, !.at = "done"]
         /\ blog' = log

\* a StaticSiteGenerator is made and run() is pulled for the first time:
\* yield Info('info', 'Generating static site pages...')
BuildStart ==
    /\ bpc.at \in {"new", "done"}
    /\ bpc.run < 2
    /\ bpc' = [run |-> bpc.run + 1, k |-> 0, at |-> "start"]
    /\ blog' = Append(blog, Info("info", "Generating static site pages...",
                                <<>>, bpc.run + 1))
    /\ fsStart' = Append(fsStart, fs)
    /\ UNCHANGED <<fs, ops, static_index, faults, renders>>
    /\ UNCHANGED <<walkVars, indexVars, favVars, genVars, dictVars, fruns>>

\* resumed after the first yield
BuildAfterStart ==
    /\ bpc.at = "start"
    /\ BuildAdvance(0, blog)
    /\ UNCHANGED <<fs, ops, static_index, faults, fsStart, renders>>
    /\ UNCHANGED <<walkVars, indexVars, favVars, genVars, dictVars, fruns>>

\* resumed after 'Checking': skip the artifact or announce the write
BuildAfterChecking ==
    /\ bpc.at = "checking"
    /\ LET dst == Artifacts[bpc.k]
       IN  IF UpToDate(dst)
           THEN /\ bpc' = [bpc EXCEPT !.at = "skipped"]
                /\ blog' = Append(blog, Info("debug", "Skipped", dst, bpc.run))
           ELSE /\ bpc' = [bpc EXCEPT !.at = "generating"]
                /\ blog' = Append(blog, Info("info", "Generating", dst, bpc.run))
    /\ renders' = IF IsPage(Artifacts[bpc.k])
                  THEN Append(renders, [dst |-> Artifacts[bpc.k], run |-> bpc.run,
                                        static_index |-> PageStaticIndex(Artifacts[bpc.k])])
                  ELSE renders
    /\ UNCHANGED <<fs, ops, static_index, faults, fsStart>>
    /\ UNCHANGED <<walkVars, indexVars, favVars, genVars, dictVars, fruns>>

\* resumed after 'Skipped': return
BuildAfterSkipped ==
    /\ bpc.at = "skipped"
    /\ BuildAdvance(bpc.k, blog)
    /\ UNCHANGED <<fs, ops, static_index, faults, fsStart, renders>>
    /\ UNCHANGED <<walkVars, indexVars, favVars, genVars, dictVars, fruns>>

\* resumed after 'Generating': makedirs, backup, write
BuildAfterGenerating ==
    /\ bpc.at = "generating"
    /\ LET dst == Artifacts[bpc.k]
           fresh == FreshContent(dst)
           backup == Op("backup", Fdst(dst), bpc.run)
       IN  \E out \in WriteOutcomes \cup CopyFailures(fresh) :
              /\ ops' = CASE out.at = "makedirs" -> ops
                          [] out.at \in {"backup", "open"} -> Append(ops, backup)
                          [] out.at = "copy" ->
                                ops \o <<backup, Op("write", Fdst(dst), bpc.run)>>
                          [] OTHER ->
                                ops \o <<backup, Op("write", Fdst(dst), bpc.run)>>
              /\ fs' = CASE out.at = "ok" -> WriteFile(fs, Fdst(dst), fresh)
                         [] out.at = "copy" -> WriteFile(fs, Fdst(dst), out.part)
                         [] OTHER -> fs
              /\ IF out.at = "ok"
                 THEN /\ BuildAdvance(bpc.k, blog)
                      /\ UNCHANGED faults
                 ELSE /\ bpc' = [bpc EXCEPT !.at = "error"]
                      /\ blog' = Append(blog, Info("error", "Failed to create", dst,
                                                  bpc.run))
                      /\ faults' = faults + 1
    /\ UNCHANGED <<static_index, fsStart, renders>>
    /\ UNCHANGED <<walkVars, indexVars, favVars, genVars, dictVars, fruns>>

\* resumed after the 'error' of a failed write
BuildAfterError ==
    /\ bpc.at = "error"
    /\ BuildAdvance(bpc.k, blog)
    /\ UNCHANGED <<fs, ops, static_index, faults, fsStart, renders>>
    /\ UNCHANGED <<walkVars, indexVars, favVars, genVars, dictVars, fruns>>

NextBuild ==
    \/ BuildStart
    \/ BuildAfterStart
    \/ BuildAfterChecking
    \/ BuildAfterSkipped
    \/ BuildAfterGenerating
    \/ BuildAfterError

\* what a file of the tree directory may hold when the first run starts
OldContents == {<<>>, <<0>>, <<1, 1>>, <<0, 1>>, <<1, 0>>}

\* The tree directory before the first run: nothing generated yet, or all
\* of it up to date, but for one path that holds anything.
InitTrees ==
    LET all == {Fdst(dst) : dst \in Range(SubSeq(RESOURCES, 1, MaxResources))
                                        \cup Range(PAGES)}
        fresh == [q \in all |-> FreshContent(SubSeq(q, Len(tree_dir) + 1, Len(q)))]
        bases == {<<>>, fresh}
    IN  bases
          \cup {WriteFile(b, q, c) : b \in bases, q \in all, c \in OldContents}
          \cup {[r \in all \ {q} |-> fresh[r]] : q \in all}

InitBuild ==
    /\ meta = <<>>
    /\ toc = <<>>
    /\ WalkIdle
    /\ fs \in InitTrees
    /\ ops = <<>>
    /\ static_index \in BOOLEAN
    /\ renders = <<>>
    /\ bpc = [run |-> 0, k |-> 0, at |-> "new"]
    /\ blog = <<>>
    /\ faults = 0
    /\ fsStart = <<>>
    /\ IndexIdle
    /\ FavIdle
    /\ GenIdle
    /\ DictIdle
    /\ NoEarlierRun

SpecBuild == InitBuild /\ [][NextBuild]_vars

----------------------------------------------------------------------------
(* Properties of the incremental build *)

Reported(what, dst, run) ==
    \E i \in DOMAIN blog :
        blog[i].what = what /\ blog[i].dst = dst /\ blog[i].run = run

\* run() number `run` has ended and none of its writes failed
RunClean(run) ==
    /\ bpc.run > run \/ (bpc.run = run /\ bpc.at = "done")
    /\ \A i \in DOMAIN blog : blog[i].run = run => blog[i].level # "error"

\* C3: after one complete run (every artifact generated or found up to date),
\* a second run with the metadata, TOC, templates and static assets unchanged
\* writes no file and calls no backup: it reports every artifact as skipped
\* and leaves every file as it was.
C3_SecondRunIsNoOp ==
    (bpc.run = 2 /\ RunClean(1)) =>
        /\ \A i \in DOMAIN ops : ops[i].run # 2
        /\ \A i \in DOMAIN blog :
              blog[i].run = 2 => blog[i].what \notin {"Generating", "Failed to create"}
        /\ fs = fsStart[2]
        /\ \A k \in 1..bpc.k :
              (k < bpc.k \/ bpc.at = "done") => Reported("Skipped", Artifacts[k], 2)

\* the second run has ended after a first run that had files to write
C3_Witness ==
    /\ bpc.run = 2
    /\ bpc.at = "done"
    /\ RunClean(1)
    /\ static_index
    /\ \E i \in DOMAIN ops : ops[i].op = "write" /\ ops[i].run = 1
    /\ Reported("Skipped", <<"index.html">>, 2)

\* artifact number k of the current run has been dealt with
Finished(k) == k < bpc.k \/ (k = bpc.k /\ bpc.at \in {"skipped", "error", "done"})

\* the file at the artifact's destination when the current run started
Before(dst) == fsStart[bpc.run][Fdst(dst)]

Existed(dst) == Fdst(dst) \in DOMAIN fsStart[bpc.run]

Differs(dst) ==
    /\ Existed(dst)
    /\ \/ FileSize(Before(dst)) # FileSize(FreshContent(dst))
       \/ Checksum(Before(dst)) # Checksum(FreshContent(dst))

\* C4: a destination that exists with other bytes than the fresh content
\* (another length, or the same length and another checksum) is backed up
\* and then overwritten, and holds the fresh content after the run (as long
\* as the write raises no filesystem error); the write is skipped only when
\* length and checksum are both equal.
C4_StaleArtifactIsReplaced ==
    \A k \in 1..bpc.k :
        LET dst == Artifacts[k]
        IN  Finished(k) =>
              /\ (Differs(dst) /\ ~Reported("Failed to create", dst, bpc.run)) =>
                    /\ \E i \in 1..(Len(ops) - 1) :
                          /\ ops[i] = Op("backup", Fdst(dst), bpc.run)
                          /\ ops[i + 1] = Op("write", Fdst(dst), bpc.run)
                    /\ fs[Fdst(dst)] = FreshContent(dst)
              /\ Reported("Skipped", dst, bpc.run) =>
                    /\ Existed(dst)
                    /\ FileSize(Before(dst)) = FileSize(FreshContent(dst))
                    /\ Checksum(Before(dst)) = Checksum(FreshContent(dst))

\* a run has replaced a file of the right length and the wrong bytes
C4_Witness ==
    /\ bpc.at = "done"
    /\ \E k \in 1..bpc.k :
          LET dst == Artifacts[k]
          IN  /\ Differs(dst)
              /\ FileSize(Before(dst)) = FileSize(FreshContent(dst))
              /\ fs[Fdst(dst)] = FreshContent(dst)

----------------------------------------------------------------------------
(* URLs, MIME types, archives: what the favicon cacher reads               *)

\* a value that is None where a URL is expected
NoneUrl == Url(NoneVal, "", <<>>, "")

\* os.path.normpath of a relative path
RECURSIVE NormPath(_)
NormPath(p) ==
    IF p = <<>> THEN <<>>
    ELSE LET before == NormPath(SubSeq(p, 1, Len(p) - 1))
             last == p[Len(p)]
         IN  IF last = ".." /\ before # <<>> /\ before[Len(before)] # ".."
             THEN SubSeq(before, 1, Len(before) - 1)
             ELSE Append(before, last)

\* base64 of the byte strings icons are made of
B64 ==
    { [bytes |-> <<0>>, text |-> "AA=="], [bytes |-> <<1>>, text |-> "AQ=="] }

B64Encode(bytes) == (CHOOSE e \in B64 : e.bytes = bytes).text

\* f'data:{mime};base64,{b64encode(bytes_).decode("ascii")}'
DataUrl(mime, bytes) == Url("data", "", <<mime, B64Encode(bytes)>>, "")

Response(err, mime, bytes) == [err |-> err, mime |-> mime, bytes |-> bytes]

\* The servers: what fetching each URL returns while the cacher runs.
IcoUrl == Url("http", "example.com", <<"favicon.ico">>, "")

IcoUrl2 == Url("http", "example.org", <<"favicon.ico">>, "")

PngUrl == Url("http", "example.com", <<"icon.png">>, "")

OctetUrl == Url("http", "example.com", <<"icon">>, "")

HtmlUrl == Url("http", "example.com", <<"page.html">>, "")

NoTypeUrl == Url("http", "example.com", <<"untyped">>, "")

DownUrl == Url("http", "down.example.com", <<"favicon.ico">>, "")

NetResponse(url) ==
    CASE url \in {IcoUrl, IcoUrl2} -> Response("", "image/vnd.microsoft.icon", <<0>>)
      [] url = PngUrl -> Response("", "image/png", <<0>>)
      [] url = OctetUrl -> Response("", "application/octet-stream", <<1>>)
      [] url = HtmlUrl -> Response("", "text/html", <<1>>)
      [] url = NoTypeUrl -> Response("", NoneVal, <<1>>)
      [] OTHER -> Response("URLError", NoneVal, <<>>)

\* urlopen(url), and the MIME type of the content-type it declares
UrlOpen(url) ==
    IF url.scheme = "data"
    THEN IF Len(url.path) = 2 /\ \E e \in B64 : e.text = url.path[2]
         THEN Response("", url.path[1],
                       (CHOOSE e \in B64 : e.text = url.path[2]).bytes)
         ELSE Response("ValueError", NoneVal, <<>>)
    ELSE IF url.scheme \in {"http", "https"} THEN NetResponse(url)
    ELSE Response("URLError", NoneVal, <<>>)

\* mime.startswith('image/')
IsImageMime(mime) ==
    mime \in {"image/png", "image/jpeg", "image/gif", "image/svg+xml",
              "image/vnd.microsoft.icon"}

\* mimetypes.guess_extension(mime) or ''
GuessExtension(mime) ==
    CASE mime = "image/png" -> ".png"
      [] mime = "image/gif" -> ".gif"
      [] mime = "image/vnd.microsoft.icon" -> ".ico"
      [] OTHER -> ""

\* mime_to_extension, with COMMON_MIME_EXTENSION
MimeToExtension(mime) ==
    CASE mime = "application/octet-stream" -> ""
      [] mime = "text/html" -> ".html"
      [] mime = "application/xhtml+xml" -> ".xhtml"
      [] mime = "image/svg+xml" -> ".svg"
      [] mime = "image/jpeg" -> ".jpg"
      [] mime = "audio/mpeg" -> ".mp3"
      [] mime = "audio/ogg" -> ".oga"
      [] mime = "video/mpeg" -> ".mpeg"
      [] mime = "video/mp4" -> ".mp4"
      [] mime = "video/ogg" -> ".ogv"
      [] mime = "application/ogg" -> ".ogx"
      [] OTHER -> GuessExtension(mime)

\* mimetypes.guess_type(subpath)[0] or 'application/octet-stream'
GuessType(subpath) ==
    LET name == IF subpath = <<>> THEN "" ELSE subpath[Len(subpath)]
    IN  CASE name = "favicon.ico" -> "image/vnd.microsoft.icon"
          [] name = "icon.png" -> "image/png"
          [] OTHER -> "application/octet-stream"

\* The archives of the data directory: their members.
HtzIndex == <<"a1.htz">>

MaffIndex == <<"a2.maff">>

\* util.is_archive, util.is_maff
IsMaff(index) == index # <<>> /\ index[Len(index)] \in {"a2.maff", "bad.maff"}

IsArchive(index) ==
    IsMaff(index) \/ (index # <<>> /\ index[Len(index)] \in {"a1.htz", "bad.htz"})

ArchiveMembers(index) ==
    CASE index = HtzIndex ->
            { [name |-> <<"index.html">>, bytes |-> <<1>>],
              [name |-> <<"favicon.ico">>, bytes |-> <<0>>],
              [name |-> <<"favicon">>, bytes |-> <<0>>] }
      [] index = MaffIndex ->
            { [name |-> <<"page", "index.html">>, bytes |-> <<1>>],
              [name |-> <<"page", "favicon.ico">>, bytes |-> <<0>>] }
      [] OTHER -> {}

\* next(iter(util.get_maff_pages(file)), None).indexfilename
MaffIndexFile(index) ==
    IF index = MaffIndex THEN <<"page", "index.html">> ELSE <<>>

\* the outcome of one pass of _cache_favicon up to its next yield
Out(kind, what) == [kind |-> kind, what |-> what, fdst |-> <<>>, bytes |-> <<>>]

\* hash_ = util.checksum(fsrc)
HashName(bytes) == ToString(Checksum(bytes))

\* a cache file named by how many files there are, not by what it holds
CacheFileNumbered(bytes, mime) ==
    tree_dir \o <<"favicon", ToString(Cardinality(DOMAIN fs)) \o MimeToExtension(mime)>>

\* fdst = os.path.join(self.book.tree_dir, 'favicon', hash_ + ext)
CacheFile(bytes, mime) ==
    tree_dir \o <<"favicon", HashName(bytes) \o MimeToExtension(mime)>>

\* cache_fh up to its yield, with the isfile test left out
CacheFhAlwaysSave(bytes, mime) ==
    [kind |-> "saving", what |-> "Saving favicon",
     fdst |-> CacheFile(bytes, mime), bytes |-> bytes]

\* cache_fh up to its yield
CacheFh(bytes, mime) ==
    IF CacheFile(bytes, mime) \in DOMAIN fs
    THEN [kind |-> "usesaved", what |-> "Use saved favicon",
          fdst |-> CacheFile(bytes, mime), bytes |-> bytes]
    ELSE [kind |-> "saving", what |-> "Saving favicon",
          fdst |-> CacheFile(bytes, mime), bytes |-> bytes]

\* _cache_favicon_absolute_url up to its first yield, with verify_mime
\* (line 489) left out
AbsoluteOutcomeUnverified(url) ==
    LET r == UrlOpen(url)
    IN  IF r.err = "URLError" THEN Out("error", "unable to fetch favicon URL")
        ELSE IF r.err = "ValueError"
             THEN Out("error", "unsupported or malformatted URL")
        ELSE CacheFh(r.bytes, r.mime)

\* _cache_favicon_absolute_url up to its first yield
AbsoluteOutcome(url) ==
    LET r == UrlOpen(url)
    IN  IF r.err = "URLError" THEN Out("error", "unable to fetch favicon URL")
        ELSE IF r.err = "ValueError"
             THEN Out("error", "unsupported or malformatted URL")
        ELSE IF r.mime \in {NoneVal, ""} THEN Out("error", "unknown MIME type")
        ELSE IF ~(IsImageMime(r.mime) \/ r.mime = "application/octet-stream")
             THEN Out("error", "invalid image MIME type")
        ELSE CacheFh(r.bytes, r.mime)

\* _get_archive_favicon, then _cache_favicon_absolute_url on its data URL
ArchiveOutcome(index, url) ==
    LET subpath == IF IsMaff(index)
                   THEN DirName(MaffIndexFile(index)) \o url.path
                   ELSE url.path
        found == {m \in ArchiveMembers(index) : m.name = subpath}
    IN  IF (IsMaff(index) /\ MaffIndexFile(index) = <<>>) \/ found = {}
        THEN Out("error", "Failed to read archive favicon")
        ELSE AbsoluteOutcome(DataUrl(GuessType(subpath),
                                     (CHOOSE m \in found : TRUE).bytes))

\* self.favicon_dir, and os.path.normcase(file).startswith(self.favicon_dir)
favicon_dir == tree_dir \o <<"favicon">>

InFaviconDir(file) ==
    /\ Len(file) > Len(favicon_dir)
    /\ SubSeq(file, 1, Len(favicon_dir)) = favicon_dir

\* _get_file_favicon with lines 536-539 left out
FileOutcomeUnguarded(index, url) ==
    LET file == NormPath(data_dir \o index \o <<"..">> \o url.path)
    IN  IF file \notin DOMAIN fs
        THEN Out("readerror", "Failed to read archive favicon")
        ELSE AbsoluteOutcome(DataUrl(GuessType(url.path), fs[file]))

\* _get_file_favicon, then _cache_favicon_absolute_url on its data URL
FileOutcome(index, url) ==
    LET file == NormPath(data_dir \o index \o <<"..">> \o url.path)
    IN  IF InFaviconDir(file)
        THEN Out("skipped", "already in favicon folder")
        ELSE IF file \notin DOMAIN fs
             THEN Out("readerror", "Failed to read archive favicon")
        ELSE AbsoluteOutcome(DataUrl(GuessType(url.path), fs[file]))

\* _cache_favicon with the tests of cache_url, cache_archive and cache_file
\* (lines 410, 423, 429) left out
CacheFaviconOutcomeAnyKind(id) ==
    LET url == meta[id].icon
        index == meta[id].index
    IN  IF url \in {NoneUrl, EmptyUrl} THEN Out("nofavicon", "no favicon to cache")
        ELSE IF url.scheme # "" THEN AbsoluteOutcome(url)
        ELSE IF url.netloc # "" THEN Out("none", "")
        ELSE IF url.path = <<>> THEN Out("none", "")
        ELSE IF IsArchive(index) THEN ArchiveOutcome(index, url)
        ELSE FileOutcome(index, url)

\* _cache_favicon, resumed after 'Caching favicon for', up to its next yield
\* ("none": it returns None without one)
CacheFaviconOutcome(id) ==
    LET url == meta[id].icon
        index == meta[id].index
    IN  IF url \in {NoneUrl, EmptyUrl} THEN Out("nofavicon", "no favicon to cache")
        ELSE IF url.scheme # ""
             THEN (IF fav.cache_url THEN AbsoluteOutcome(url) ELSE Out("none", ""))
        ELSE IF url.netloc # "" THEN Out("none", "")
        ELSE IF url.path = <<>> THEN Out("none", "")
        ELSE IF IsArchive(index)
             THEN (IF fav.cache_archive THEN ArchiveOutcome(index, url)
                   ELSE Out("none", ""))
        ELSE IF fav.cache_file THEN FileOutcome(index, url)
        ELSE Out("none", "")

\* the path of the cache file taken from the data directory, whatever the
\* directory of the item's content
RewrittenIconFromDataDir(id, cache_file) ==
    Url("", "", GetRelativeUrl(cache_file, data_dir), "")

\* util.get_relative_url(cache_file, join(data_dir, dirname(index)), path_is_dir=False)
RewrittenIcon(id, cache_file) ==
    Url("", "", GetRelativeUrl(cache_file, data_dir \o DirName(meta[id].index)), "")

\* an Info event of the indexer or the cacher: the file of the batch it is
\* about (0 outside a batch) and the item id it names
IInfo(lv, what, file, id) == [level |-> lv, what |-> what, file |-> file, id |-> id]

\* the next position of item_ids after k whose id is in the store (0: none)
NextPresent(ids, k, store) ==
    LET later == {j \in (k + 1)..Len(ids) : ids[j] \in DOMAIN store}
    IN  IF later = {} THEN 0 ELSE CHOOSE j \in later : \A i \in later : j <= i

----------------------------------------------------------------------------
(* Indexer._index_file: the documents of a batch and what is read of them  *)

\* util.datetime_to_id: the id of the instant n milliseconds after
\* 2020-01-01 00:00:00.000 UTC
TsId(n) ==
    "20200101000000"
        \o (IF n < 10 THEN "00" ELSE IF n < 100 THEN "0" ELSE "")
        \o ToString(n)

\* util.id_to_datetime: the instant a well-formed id names, as milliseconds
\* (-1: None)
IdToDatetime(id) ==
    IF \E n \in 0..20 : TsId(n) = id
    THEN CHOOSE n \in 0..20 : TsId(n) = id
    ELSE -1

\* book.SPECIAL_ITEM_ID
SPECIAL_ITEM_ID == {"root", "hidden", "recycle"}

\* book.ITEM_INDEX_ALLOWED_EXT
ITEM_INDEX_ALLOWED_EXT == {".html", ".htm", ".xhtml", ".xht"}

\* book.DEFAULT_META
DEFAULT_META ==
    [id |-> NoneVal, index |-> <<>>, title |-> NoneVal, type |-> NoneVal,
     create |-> NoneVal, modify |-> NoneVal, source |-> NoneUrl,
     icon |-> NoneUrl, comment |-> NoneVal]

\* os.path.splitext, on the file names that occur
FileExts == {".html", ".txt", ".htz", ".maff"}

SplitExt(name) ==
    LET stems == {"gone", "broken", "nohtml", "notes", "page", "reserved",
                  "empty", "sfbad", "relless", "untitled", "index", "a1", "a2", TsId(0)}
        hits == {p \in stems \X FileExts : p[1] \o p[2] = name}
    IN  IF hits = {} THEN <<name, "">> ELSE CHOOSE p \in hits : TRUE

\* A file of the batch: its path below the data directory, whether it is
\* there, and what the parsed document holds.
\*   doc:   "none" (the parser gave no tree), "nohtml" (the root is not <html>), "ok"
\*   ie:    the comment before the root, against REGEX_IE_DOC_COMMENT
\*   first: the first child of the root ("none": there is no child)
\*   sp:    the savepage-* meta elements
\*   attrs: the data-scrapbook-* attributes of the root
\*   title: the text of the first valid <title> (NoneVal: there is none)
\*   links: the <link> elements in document order
BaseFile(path) ==
    [path |-> path, exists |-> TRUE, doc |-> "ok",
     ie |-> [match |-> FALSE, lenok |-> FALSE, source |-> NoneUrl],
     first |-> [kind |-> "elem", sf_match |-> FALSE, sf_dateok |-> FALSE,
                sf_source |-> NoneUrl, sf_create |-> "",
                mx_match |-> FALSE, mx_source |-> NoneUrl],
     sp |-> [url |-> NoneUrl, title |-> NoneVal, date |-> "none", create |-> ""],
     attrs |-> <<>>, title |-> NoneVal, links |-> <<>>,
     ctime |-> 3, mtime |-> 4]

Undecodable == "<undecodable>"

Link(rel, href) == [rel |-> rel, href |-> href]

PageUrl == Url("http", "example.com", <<"dir", "page">>, "")

FileKinds ==
    { [BaseFile(<<"gone.html">>) EXCEPT !.exists = FALSE],
      [BaseFile(<<"broken.html">>) EXCEPT !.doc = "none"],
      [BaseFile(<<"nohtml.html">>) EXCEPT !.doc = "nohtml"],
      [BaseFile(<<TsId(0) \o ".html">>) EXCEPT
          !.title = "Page", !.links = <<Link("stylesheet", NoneUrl),
                                        Link("shortcut icon", IcoUrl)>>],
      [BaseFile(<<TsId(0), "index.html">>) EXCEPT
          !.title = " ", !.ie = [match |-> TRUE, lenok |-> TRUE, source |-> PageUrl],
          !.links = <<Link("icon", DownUrl)>>],
      BaseFile(<<"notes.txt">>),
      [BaseFile(<<"page.html">>) EXCEPT
          !.attrs = [id |-> "custom", title |-> "Custom"],
          !.links = <<Link("icon", PngUrl)>>],
      [BaseFile(<<"reserved.html">>) EXCEPT !.attrs = [id |-> "root"]],
      [BaseFile(<<"empty.html">>) EXCEPT
          !.first.kind = "none", !.attrs = [id |-> "custom"]],
      [BaseFile(<<"sfbad.html">>) EXCEPT
          !.first = [kind |-> "comment", sf_match |-> TRUE, sf_dateok |-> FALSE,
                     sf_source |-> PageUrl, sf_create |-> "",
                     mx_match |-> FALSE, mx_source |-> NoneUrl]],
      [BaseFile(<<"relless.html">>) EXCEPT
          !.title = "Links", !.links = <<Link(NoneVal, IcoUrl)>>],
      [BaseFile(<<"untitled.html">>) EXCEPT !.title = Undecodable] }

IsWebpage(f) == SplitExt(f.path[Len(f.path)])[2] \in ITEM_INDEX_ALLOWED_EXT

\* the result of a handler: the metadata, or an exception
Handled(m) == [raised |-> FALSE, m |-> m]

Raised(m) == [raised |-> TRUE, m |-> m]

\* _handle_ie_meta
HandleIe(m, f) ==
    IF f.ie.match /\ f.ie.lenok
    THEN Handled([m EXCEPT !.source = f.ie.source])
    ELSE Handled(m)

\* _handle_singlefile_meta: root[0] of a root without children raises
\* IndexError, which `except KeyError` does not catch; so does strptime
\* (ValueError) on a date it cannot parse
HandleSinglefile(m, f) ==
    IF f.first.kind = "none" THEN Raised(m)
    ELSE IF f.first.kind # "comment" \/ ~f.first.sf_match THEN Handled(m)
    ELSE IF ~f.first.sf_dateok THEN Raised(m)
    ELSE Handled([m EXCEPT !.source = f.first.sf_source,
                           !.create = f.first.sf_create])

\* _handle_savepagewe_meta
HandleSavepagewe(m, f) ==
    LET m1 == IF f.sp.url # NoneUrl THEN [m EXCEPT !.source = f.sp.url] ELSE m
        m2 == IF f.sp.title # NoneVal THEN [m1 EXCEPT !.title = f.sp.title] ELSE m1
    IN  IF f.sp.date = "bad" THEN Raised(m2)
        ELSE IF f.sp.date = "ok" THEN Handled([m2 EXCEPT !.create = f.sp.create])
        ELSE Handled(m2)

\* _handle_maoxian_meta
HandleMaoxian(m, f) ==
    IF f.first.kind = "none" THEN Raised(m)
    ELSE IF f.first.kind # "comment" \/ ~f.first.mx_match THEN Handled(m)
    ELSE Handled([m EXCEPT !.source = f.first.mx_source])

\* lines 196-206: a handler runs if it is switched on and none before it
\* has raised
Guarded(on, r, next) == IF r.raised \/ ~on THEN r ELSE next

AfterIe(f) == Guarded(handlers.ie, Handled(DEFAULT_META), HandleIe(DEFAULT_META, f))

AfterSinglefile(r, f) == Guarded(handlers.singlefile, r, HandleSinglefile(r.m, f))

AfterSavepagewe(r, f) == Guarded(handlers.savepagewe, r, HandleSavepagewe(r.m, f))

AfterMaoxian(r, f) == Guarded(handlers.maoxian, r, HandleMaoxian(r.m, f))

\* lines 208-211, with an attribute filling only what no handler has set
MergeAttrsKeepInferred(r, f) ==
    IF r.raised THEN r
    ELSE Handled([k \in DOMAIN r.m \cup DOMAIN f.attrs |->
                     IF k \in DOMAIN f.attrs /\ r.m[k] = DEFAULT_META[k]
                     THEN f.attrs[k] ELSE r.m[k]])

\* lines 208-211: the data-scrapbook-* attributes of the root
MergeAttrs(r, f) ==
    IF r.raised THEN r
    ELSE Handled([k \in DOMAIN r.m \cup DOMAIN f.attrs |->
                     IF k \in DOMAIN f.attrs THEN f.attrs[k] ELSE r.m[k]])

\* lines 192-211
Extracted(f) ==
    IF ~IsWebpage(f) THEN Handled(DEFAULT_META)
    ELSE MergeAttrs(AfterMaoxian(AfterSavepagewe(AfterSinglefile(AfterIe(f), f), f),
                                 f), f)

\* `if id in self.book.meta`, for an id the document specifies
ExplicitIdUsedNever(id) == FALSE

ExplicitIdUsed(id) == id \in DOMAIN meta

\* lines 235-239, with the while loop left out
SynthesizeIdNoLoop(ts, used) == TsId(ts)

\* lines 235-239: the id of the clock's reading, moved on by a millisecond
\* at a time while it is in use
RECURSIVE SynthesizeId(_, _)
SynthesizeId(ts, used) ==
    IF TsId(ts) \in used THEN SynthesizeId(ts + 1, used) ELSE TsId(ts)

\* lines 228-232, with lines 230-231 left out
BaseNameIdOfFileOnly(f) == SplitExt(f.path[Len(f.path)])[1]

\* lines 228-232
BaseNameId(f) ==
    LET basename == f.path[Len(f.path)]
        name == IF basename = "index.html"
                THEN (IF Len(f.path) > 1 THEN f.path[Len(f.path) - 1] ELSE "")
                ELSE basename
    IN  SplitExt(name)[1]

\* lines 234-239, for the id the file name gives
DerivedId(id, ts) ==
    IF IdToDatetime(id) = -1 \/ id \in DOMAIN meta
    THEN [err |-> "", id |-> SynthesizeId(ts, DOMAIN meta), synth |-> TRUE]
    ELSE [err |-> "", id |-> id, synth |-> FALSE]

\* lines 213-239: the id, or the error that rejects the file
ResolvedId(m, f, ts) ==
    IF m.id \notin {NoneVal, ""}
    THEN [err |-> IF ExplicitIdUsed(m.id) THEN "is already used"
                  ELSE IF m.id \in SPECIAL_ITEM_ID THEN "is invalid"
                  ELSE "",
          id |-> m.id, synth |-> FALSE]
    ELSE DerivedId(BaseNameId(f), ts)

\* generate_item_title
GenerateItemTitle(m) ==
    IF m.source \notin {NoneUrl, EmptyUrl} /\ m.source.scheme # ""
          /\ m.source.path # <<>>
    THEN m.source.path[Len(m.source.path)]
    ELSE NoneVal

\* generate_item_create(book, id) or ''
GenerateItemCreate(id, m, f) ==
    IF IdToDatetime(id) # -1 THEN TsId(IdToDatetime(id))
    ELSE IF m.index # <<>> /\ f.ctime >= 0 THEN TsId(f.ctime)
    ELSE IF m.modify \notin {NoneVal, ""} THEN m.modify
    ELSE ""

\* generate_item_modify, looking at the id before the file
GenerateItemModifyFromId(id, m, f) ==
    IF IdToDatetime(id) # -1 THEN TsId(IdToDatetime(id))
    ELSE IF m.index # <<>> /\ f.mtime >= 0 THEN TsId(f.mtime)
    ELSE IF m.create \notin {NoneVal, ""} THEN m.create
    ELSE ""

\* generate_item_modify(book, id) or ''
GenerateItemModify(id, m, f) ==
    IF m.index # <<>> /\ f.mtime >= 0 THEN TsId(f.mtime)
    ELSE IF m.create \notin {NoneVal, ""} THEN m.create
    ELSE ""

\* 'icon' in elem.attrib.get('rel').lower().split()
HasIconToken(rel) == rel \in {"icon", "shortcut icon", "ICON", "apple-touch-icon icon"}

\* next(iter_favicon_elems(tree), None), then its href: a <link> without
\* rel raises AttributeError
RECURSIVE FirstIcon(_)
FirstIcon(links) ==
    IF links = <<>> THEN [raised |-> FALSE, href |-> EmptyUrl]
    ELSE IF Head(links).rel = NoneVal THEN [raised |-> TRUE, href |-> EmptyUrl]
    ELSE IF HasIconToken(Head(links).rel)
         THEN [raised |-> FALSE,
               href |-> IF Head(links).href = NoneUrl THEN EmptyUrl
                        ELSE Head(links).href]
    ELSE FirstIcon(Tail(links))

SetItem(store, id, item) ==
    [i \in DOMAIN store \cup {id} |-> IF i = id THEN item ELSE store[i]]

\* lines 241-249: the item as it enters the store
Registered(m, f) ==
    LET item == [k \in DOMAIN m \ {"id"} |-> m[k]]
    IN  [item EXCEPT !.index = f.path,
                     !.type = IF @ \in {NoneVal, ""}
                              THEN (IF IsWebpage(f) THEN "" ELSE "file")
                              ELSE @]

\* lines 262-264
TitleOr(t) == IF t = NoneVal THEN "" ELSE t

FillTitle(m, title) ==
    IF m.title # NoneVal THEN m
    ELSE IF title \in {NoneVal, "", " "}
         THEN [m EXCEPT !.title = TitleOr(GenerateItemTitle(m))]
    ELSE [m EXCEPT !.title = title]

\* lines 267-268
FillCreate(id, m, f) ==
    IF m.create \in {NoneVal, ""}
    THEN [m EXCEPT !.create = GenerateItemCreate(id, m, f)]
    ELSE m

\* lines 271-272
FillModify(id, m, f) ==
    IF m.modify \in {NoneVal, ""}
    THEN [m EXCEPT !.modify = GenerateItemModify(id, m, f)]
    ELSE m

\* lines 275-281, given what the search for the favicon link ends with
FillIcon(store, id, m, f, found) ==
    IF m.icon # NoneUrl THEN [raised |-> FALSE, store |-> SetItem(store, id, m)]
    ELSE IF ~IsWebpage(f)
         THEN [raised |-> FALSE,
               store |-> SetItem(store, id, [m EXCEPT !.icon = EmptyUrl])]
    ELSE IF found.raised THEN [raised |-> TRUE, store |-> SetItem(store, id, m)]
    ELSE [raised |-> FALSE,
          store |-> SetItem(store, id, [m EXCEPT !.icon = found.href])]

\* lines 262-281, given the title read from the document (NoneVal: none):
\* the store, or the store as the exception leaves it
Filled(store, id, f, title) ==
    FillIcon(store, id,
             FillModify(id, FillCreate(id, FillTitle(store[id], title), f), f),
             f, FirstIcon(f.links))

IndexOut(kind, what, store, id, synth) ==
    [kind |-> kind, what |-> what, store |-> store, id |-> id, synth |-> synth]

FilledOut(r, id, synth) ==
    IndexOut(IF r.raised THEN "raise" ELSE "favicon", "", r.store, id, synth)

\* how far lines 262-284 get: an exception, or the first yield of the cacher
FilledOutcome(store, id, synth, f, title) ==
    FilledOut(Filled(store, id, f, title), id, synth)

\* lines 252-284, the item registered
AfterRegister(store, r, f) ==
    IF store[r.id].title = NoneVal /\ IsWebpage(f) /\ f.title = Undecodable
    THEN IndexOut("titleerror", "Failed to extract title", store, r.id, r.synth)
    ELSE FilledOutcome(store, r.id, r.synth, f,
                       IF IsWebpage(f) THEN f.title ELSE NoneVal)

\* lines 213-284, the id resolved
AfterResolve(m, r, f) ==
    IF r.err # "" THEN IndexOut("error", r.err, meta, "", FALSE)
    ELSE AfterRegister(SetItem(meta, r.id, Registered(m, f)), r, f)

\* lines 213-284, the metadata extracted
AfterExtract(x, f, ts) ==
    IF x.raised THEN IndexOut("raise", "", meta, "", FALSE)
    ELSE AfterResolve(x.m, ResolvedId(x.m, f, ts), f)

\* _index_file, resumed after 'Indexing', up to its next yield; ts is what
\* the clock reads if it is asked
IndexOutcome(f, ts) ==
    IF ~f.exists THEN IndexOut("error", "does not exist", meta, "", FALSE)
    ELSE IF IsWebpage(f) /\ f.doc = "none"
         THEN IndexOut("error", "Failed to read document", meta, "", FALSE)
    ELSE IF IsWebpage(f) /\ f.doc = "nohtml"
         THEN IndexOut("error", "No html element", meta, "", FALSE)
    ELSE AfterExtract(Extracted(f), f, ts)

----------------------------------------------------------------------------
(* FavIconCacher.run, one action from each yield to the next               *)

\* the file of the batch the cacher works for (0: it runs on its own)
FavFile == IF fav.caller = "indexer" THEN fi ELSE 0

FavId == fav.item_ids[fav.k]

FavEvent(lv, what) == IInfo(lv, what, FavFile, FavId)

NoLoc == [fdst |-> <<>>, bytes |-> <<>>]

\* Indexer._index_file lines 286-294 and Indexer.run line 163, once the
\* cacher it started has returned
IndexerResume(store, log) ==
    LET m == store[cur.id]
        m1 == IF m.source = NoneUrl THEN [m EXCEPT !.source = EmptyUrl] ELSE m
        m2 == IF m1.comment = NoneVal THEN [m1 EXCEPT !.comment = ""] ELSE m1
    IN  /\ meta' = SetItem(store, cur.id, m2)
        /\ ilog' = Append(log, IInfo("info", "Added item", fi, cur.id))
        /\ ipc' = "added"
        /\ fpc' = "idle"
        /\ fav' = fav
        /\ UNCHANGED <<files, handlers, fi, cur, indexed, now, meta0>>

\* FavIconCacher.run lines 386-394, after _cache_favicon has returned for
\* the current id: the next id that is in the store, or the end of the run
FinishId(store, c2, log) ==
    LET j == NextPresent(fav.item_ids, fav.k, store)
    IN  /\ cached' = c2
        /\ floc' = NoLoc
        /\ IF j # 0
           THEN /\ fav' = [fav EXCEPT !.k = j]
                /\ fpc' = "caching"
                /\ ilog' = Append(log, IInfo("debug", "Caching favicon", FavFile,
                                             fav.item_ids[j]))
                /\ meta' = store
                /\ UNCHANGED indexVars
           ELSE IF fav.caller = "run"
           THEN /\ fav' = fav
                /\ fpc' = "done"
                /\ ilog' = log
                /\ meta' = store
                /\ UNCHANGED indexVars
           ELSE IndexerResume(store, log)

\* an exception nothing catches ends the cacher and the run that started it
FavRaise ==
    /\ fpc' = "raised"
    /\ ipc' = IF fav.caller = "indexer" THEN "raised" ELSE ipc
    /\ UNCHANGED <<files, handlers, fi, cur, indexed, now, meta0>>
    /\ UNCHANGED <<meta, ilog, fav, floc, cached>>

FavStart ==
    /\ fpc = "new"
    /\ FinishId(meta, <<>>, ilog)
    /\ UNCHANGED <<fs, ops, faults>>
    /\ UNCHANGED otherVars

FavAfterCaching ==
    /\ fpc = "caching"
    /\ \E o \in {CacheFaviconOutcome(FavId)} :
           IF o.kind = "none"
           THEN FinishId(meta, cached, ilog)
           ELSE /\ fpc' = o.kind
                /\ floc' = [fdst |-> o.fdst, bytes |-> o.bytes]
                /\ ilog' = Append(ilog,
                              FavEvent(IF o.kind \in {"error", "readerror"}
                                       THEN "error"
                                       ELSE IF o.kind \in {"usesaved", "saving"}
                                       THEN "info" ELSE "debug", o.what))
                /\ UNCHANGED <<meta, fav, cached>>
                /\ UNCHANGED indexVars
    /\ UNCHANGED <<fs, ops, faults>>
    /\ UNCHANGED otherVars

\* after 'Skipped ...': _cache_favicon returns None
FavAfterSkipped ==
    /\ fpc \in {"nofavicon", "skipped"}
    /\ FinishId(meta, cached, ilog)
    /\ UNCHANGED <<fs, ops, faults>>
    /\ UNCHANGED otherVars

\* after 'Unable to cache ...' or 'Failed to read archive favicon'
FavAfterError ==
    /\ fpc = "error"
    /\ FinishId(meta, cached, ilog)
    /\ UNCHANGED <<fs, ops, faults>>
    /\ UNCHANGED otherVars

\* _get_file_favicon after its error event: line 547 on, where bytes_ is
\* not bound (UnboundLocalError)
FavAfterReadError ==
    /\ fpc = "readerror"
    /\ FavRaise
    /\ UNCHANGED <<fs, ops, faults>>
    /\ UNCHANGED otherVars

\* cache_fh returns the file that is there; lines 494-499 rewrite the icon
FavAfterUseSaved ==
    /\ fpc = "usesaved"
    /\ FinishId(SetItem(meta, FavId,
                        [meta[FavId] EXCEPT !.icon = RewrittenIcon(FavId, floc.fdst)]),
                [i \in DOMAIN cached \cup {FavId} |->
                    IF i = FavId THEN floc.fdst ELSE cached[i]],
                ilog)
    /\ UNCHANGED <<fs, ops, faults>>
    /\ UNCHANGED otherVars

\* cache_fh lines 468-473, outside any try, then lines 494-499
FavAfterSaving ==
    /\ fpc = "saving"
    /\ LET backup == Op("backup", floc.fdst, 0)
           write == Op("write", floc.fdst, 0)
       IN  \E out \in WriteOutcomes \cup CopyFailures(floc.bytes) :
              /\ ops' = CASE out.at = "makedirs" -> ops
                          [] out.at \in {"backup", "open"} -> Append(ops, backup)
                          [] OTHER -> ops \o <<backup, write>>
              /\ fs' = CASE out.at = "ok" -> WriteFile(fs, floc.fdst, floc.bytes)
                         [] out.at = "copy" -> WriteFile(fs, floc.fdst, out.part)
                         [] OTHER -> fs
              /\ IF out.at = "ok"
                 THEN /\ faults' = faults
                      /\ FinishId(SetItem(meta, FavId,
                                     [meta[FavId] EXCEPT
                                         !.icon = RewrittenIcon(FavId, floc.fdst)]),
                                  [i \in DOMAIN cached \cup {FavId} |->
                                      IF i = FavId THEN floc.fdst ELSE cached[i]],
                                  ilog)
                 ELSE /\ faults' = faults + 1
                      /\ FavRaise
    /\ UNCHANGED otherVars

NextFav ==
    \/ FavStart
    \/ FavAfterCaching
    \/ FavAfterSkipped
    \/ FavAfterError
    \/ FavAfterReadError
    \/ FavAfterUseSaved
    \/ FavAfterSaving

\* The books the cacher is run on by itself: two items that name an icon
\* each, a page or an archive as index, and any of the icon files on disk.
IconUrls ==
    { EmptyUrl, IcoUrl, IcoUrl2, PngUrl, OctetUrl, HtmlUrl, NoTypeUrl, DownUrl,
      DataUrl("image/png", <<0>>),
      Url("data", "", <<"image/png", "?">>, ""),
      Url("", "example.com", <<"favicon.ico">>, ""),
      Url("", "", <<>>, "top"),
      Url("", "", <<"favicon.ico">>, ""),
      Url("", "", <<"missing.ico">>, ""),
      Url("", "", <<"..", ".wsb", "tree", "favicon", "x.ico">>, "") }

SecondIconUrls ==
    { EmptyUrl, IcoUrl, IcoUrl2, PngUrl, OctetUrl, DataUrl("image/png", <<0>>),
      Url("", "", <<"favicon.ico">>, "") }

FavIndexes ==
    { <<"p.html">>, <<"d", "index.html">>, HtzIndex, MaffIndex, <<"bad.maff">> }

FavItem(index, icon) ==
    [DEFAULT_META EXCEPT !.index = index, !.icon = icon, !.type = "",
                         !.title = "t", !.create = TsId(0), !.modify = TsId(0),
                         !.source = EmptyUrl, !.comment = ""]

FavTrees ==
    { <<>>,
      (<<"favicon.ico">> :> <<0>>),
      (<<"d", "favicon.ico">> :> <<0>>),
      (favicon_dir \o <<HashName(<<0>>) \o ".png">> :> <<0>>) }

InitFav ==
    /\ toc = <<>>
    /\ WalkIdle
    /\ static_index = FALSE
    /\ renders = <<>>
    /\ bpc = [run |-> 0, k |-> 0, at |-> "idle"]
    /\ blog = <<>>
    /\ fs \in FavTrees
    /\ fsStart = <<fs>>
    /\ ops = <<>>
    /\ faults = 0
    /\ files = <<>>
    /\ handlers = [ie |-> TRUE, singlefile |-> TRUE, savepagewe |-> TRUE,
                   maoxian |-> TRUE]
    /\ fi = 0
    /\ ipc = "idle"
    /\ cur = [id |-> "", synth |-> FALSE, ts |-> 0]
    /\ indexed = <<>>
    /\ now = 0
    /\ \E x1 \in FavIndexes, x2 \in {<<"d", "index.html">>},
          u1 \in IconUrls, u2 \in SecondIconUrls :
          meta = [i \in {"i1", "i2"} |->
                     IF i = "i1" THEN FavItem(x1, u1) ELSE FavItem(x2, u2)]
    /\ meta0 = meta
    /\ ilog = <<>>
    /\ \E a \in BOOLEAN, b \in BOOLEAN, c \in BOOLEAN :
          \E ids \in {<<"i1", "i2">>, <<"gone", "i2">>, <<"gone">>} :
             fav = [cache_url |-> a, cache_archive |-> b, cache_file |-> c,
                    item_ids |-> ids, k |-> 0, caller |-> "run"]
    /\ fpc = "new"
    /\ floc = NoLoc
    /\ cached = <<>>
    /\ GenIdle
    /\ DictIdle
    /\ NoEarlierRun

SpecFav == InitFav /\ [][NextFav]_vars

----------------------------------------------------------------------------
(* Indexer.run, one action from each yield to the next                     *)

\* the first yield of whatever follows the current file: 'Indexing' of the
\* next file, or the end of run(); meta0 keeps the store as the file found it
IndexAdvance(store, log) ==
    IF fi < Len(files)
    THEN /\ fi' = fi + 1
         /\ ipc' = "indexing"
         /\ ilog' = Append(log, IInfo("debug", "Indexing", fi + 1, ""))
         /\ meta0' = store
    ELSE /\ fi' = fi
         /\ ipc' = "done"
         /\ ilog' = log
         /\ meta0' = meta0

\* an Indexer is made and run() is pulled for the first time
IndexStart ==
    /\ ipc = "new"
    /\ IndexAdvance(meta, ilog)
    /\ UNCHANGED <<meta, fs, ops, faults>>
    /\ UNCHANGED <<files, handlers, cur, indexed, now>>
    /\ UNCHANGED <<fav, fpc, floc, cached>>
    /\ UNCHANGED otherVars

\* lines 283-284 and 397: a cacher for the new item, up to its first yield
StartCacher(store, id, synth, ts, log) ==
    /\ meta' = store
    /\ cur' = [id |-> id, synth |-> synth, ts |-> ts]
    /\ ipc' = "favicon"
    /\ fav' = [cache_url |-> TRUE, cache_archive |-> TRUE, cache_file |-> FALSE,
               item_ids |-> <<id>>, k |-> 1, caller |-> "indexer"]
    /\ fpc' = "caching"
    /\ floc' = NoLoc
    /\ cached' = <<>>
    /\ ilog' = Append(log, IInfo("debug", "Caching favicon", fi, id))

\* an exception nothing catches ends run()
IndexRaise(store) ==
    /\ meta' = store
    /\ ipc' = "raised"
    /\ UNCHANGED <<ilog, fav, fpc, floc, cached>>

\* resumed after 'Indexing ...'
IndexAfterIndexing ==
    /\ ipc = "indexing"
    /\ \E ts \in now..MaxClock :
          \E o \in {IndexOutcome(files[fi], ts)} :
              /\ o.synth \/ ts = now
              /\ now' = ts
              /\ CASE o.kind = "error" ->
                        /\ meta' = meta
                        /\ cur' = cur
                        /\ ipc' = "error"
                        /\ ilog' = Append(ilog, IInfo("error", o.what, fi, ""))
                        /\ UNCHANGED <<fav, fpc, floc, cached>>
                   [] o.kind = "raise" ->
                        /\ cur' = cur
                        /\ IndexRaise(o.store)
                   [] o.kind = "titleerror" ->
                        /\ meta' = o.store
                        /\ cur' = [id |-> o.id, synth |-> o.synth, ts |-> ts]
                        /\ ipc' = "titleerror"
                        /\ ilog' = Append(ilog, IInfo("error", o.what, fi, o.id))
                        /\ UNCHANGED <<fav, fpc, floc, cached>>
                   [] OTHER -> StartCacher(o.store, o.id, o.synth, ts, ilog)
    /\ UNCHANGED <<fs, ops, faults>>
    /\ UNCHANGED <<files, handlers, fi, indexed, meta0>>
    /\ UNCHANGED otherVars

\* resumed after an error that rejects the file: _index_file returns None
IndexAfterError ==
    /\ ipc = "error"
    /\ IndexAdvance(meta, ilog)
    /\ UNCHANGED <<meta, fs, ops, faults>>
    /\ UNCHANGED <<files, handlers, cur, indexed, now>>
    /\ UNCHANGED <<fav, fpc, floc, cached>>
    /\ UNCHANGED otherVars

\* resumed after 'Failed to extract title': line 262 on, without a title
IndexAfterTitleError ==
    /\ ipc = "titleerror"
    /\ \E o \in {FilledOutcome(meta, cur.id, cur.synth, files[fi], NoneVal)} :
           IF o.kind = "raise"
           THEN /\ cur' = cur
                /\ IndexRaise(o.store)
           ELSE StartCacher(o.store, cur.id, cur.synth, cur.ts, ilog)
    /\ UNCHANGED <<fs, ops, faults>>
    /\ UNCHANGED <<files, handlers, fi, indexed, now, meta0>>
    /\ UNCHANGED otherVars

\* resumed after 'Added item': line 164, then the next file
IndexAfterAdded ==
    /\ ipc = "added"
    /\ indexed' = Append(indexed, cur.id)
    /\ IndexAdvance(meta, ilog)
    /\ UNCHANGED <<meta, fs, ops, faults>>
    /\ UNCHANGED <<files, handlers, cur, now>>
    /\ UNCHANGED <<fav, fpc, floc, cached>>
    /\ UNCHANGED otherVars

NextIndex ==
    \/ IndexStart
    \/ IndexAfterIndexing
    \/ IndexAfterError
    \/ IndexAfterTitleError
    \/ IndexAfterAdded
    \/ FavAfterCaching
    \/ FavAfterSkipped
    \/ FavAfterError
    \/ FavAfterUseSaved
    \/ FavAfterSaving

\* The stores a batch is indexed into: empty, or holding an item under the
\* id a file of the batch specifies or is named after.
OldItem ==
    [DEFAULT_META EXCEPT !.index = <<"old.html">>, !.title = "Old", !.type = "",
                         !.create = TsId(0), !.modify = TsId(0),
                         !.source = EmptyUrl, !.icon = EmptyUrl, !.comment = ""]

StoredItem == [k \in DOMAIN OldItem \ {"id"} |-> OldItem[k]]

InitStores ==
    { <<>> } \cup { [i \in S |-> StoredItem] : S \in { {"custom"}, {TsId(0)},
                                                      {TsId(0), TsId(1)} } }

InitIndex ==
    /\ toc = <<>>
    /\ WalkIdle
    /\ static_index = FALSE
    /\ renders = <<>>
    /\ bpc = [run |-> 0, k |-> 0, at |-> "idle"]
    /\ blog = <<>>
    /\ fsStart = <<>>
    /\ fs = <<>>
    /\ ops = <<>>
    /\ faults = 0
    /\ meta \in InitStores
    /\ meta0 = meta
    /\ files \in SeqsUpTo(FileKinds, MaxFiles) \ {<<>>}
    /\ handlers = [ie |-> TRUE, singlefile |-> TRUE, savepagewe |-> TRUE,
                   maoxian |-> TRUE]
    /\ fi = 0
    /\ ipc = "new"
    /\ cur = [id |-> "", synth |-> FALSE, ts |-> 0]
    /\ indexed = <<>>
    /\ now \in 0..MaxClock
    /\ ilog = <<>>
    /\ fav = [cache_url |-> TRUE, cache_archive |-> FALSE, cache_file |-> FALSE,
              item_ids |-> <<>>, k |-> 0, caller |-> "run"]
    /\ fpc = "idle"
    /\ floc = NoLoc
    /\ cached = <<>>
    /\ GenIdle
    /\ DictIdle
    /\ NoEarlierRun

SpecIndex == InitIndex /\ [][NextIndex]_vars

----------------------------------------------------------------------------
(* Properties of Indexer.run                                               *)

\* an event of the given level and text has been yielded for file k
Yielded(lv, what, k) ==
    \E i \in DOMAIN ilog :
        ilog[i].level = lv /\ ilog[i].what = what /\ ilog[i].file = k

HasError(k) == \E i \in DOMAIN ilog : ilog[i].level = "error" /\ ilog[i].file = k

\* 'Added item' has been yielded for file k, with an id that is in the store
HasAdded(k) ==
    \E i \in DOMAIN ilog :
        /\ ilog[i] = IInfo("info", "Added item", k, ilog[i].id)
        /\ ilog[i].id \in DOMAIN meta

\* the run is over: run() has returned, or an exception has left it
RunOver == ipc \in {"done", "raised"}

\* the file specifies, in the attributes line 214 reads, an id that is in
\* use or reserved
SpecifiesTakenId(f) ==
    /\ f.exists /\ IsWebpage(f) /\ f.doc = "ok"
    /\ ~Extracted(f).raised
    /\ "id" \in DOMAIN f.attrs
    /\ f.attrs.id \in DOMAIN meta0 \cup SPECIAL_ITEM_ID

IdSettled == ipc \in {"titleerror", "favicon", "added"}

\* C6: a synthesized id is the id of the first instant, from the one the
\* clock read on in steps of a millisecond, whose id is not in the store;
\* and the ids the files of a batch are indexed under are all different.
C6_SynthesizedIdIsFirstFree ==
    /\ (IdSettled /\ cur.synth) =>
          \E n \in cur.ts..(cur.ts + Cardinality(DOMAIN meta0)) :
             /\ cur.id = TsId(n)
             /\ TsId(n) \notin DOMAIN meta0
             /\ \A k \in cur.ts..(n - 1) : TsId(k) \in DOMAIN meta0
    /\ \A i \in DOMAIN indexed, j \in DOMAIN indexed :
          indexed[i] = indexed[j] => i = j
    /\ IdSettled => \A i \in DOMAIN indexed : indexed[i] # cur.id

\* two files get synthesized ids from the same reading of the clock: the
\* second gets the id of the next millisecond
C6_Witness ==
    /\ ipc = "added"
    /\ cur.synth
    /\ indexed = <<TsId(cur.ts)>>
    /\ cur.id = TsId(cur.ts + 1)
    /\ fi = 2
    /\ \E i \in DOMAIN ilog : ilog[i] = IInfo("info", "Added item", 1, TsId(cur.ts))

\* a file with none of the defects: it is there, parses, has a root with a
\* child, dates and links that are well formed, and specifies no id
Valid(f) ==
    /\ f.exists
    /\ IsWebpage(f) =>
          /\ f.doc = "ok"
          /\ f.first.kind # "none"
          /\ ~(f.first.kind = "comment" /\ f.first.sf_match /\ ~f.first.sf_dateok)
          /\ f.sp.date # "bad"
          /\ \A i \in DOMAIN f.links : f.links[i].rel # NoneVal
          /\ f.title # Undecodable
          /\ "id" \notin DOMAIN f.attrs

\* C7: when the run is over (and no write of a favicon has failed) it has
\* returned, having gone through every file of the batch, and every valid
\* file is among the ids it returns.
C7_RunProcessesEveryFile ==
    (RunOver /\ faults = 0) =>
        /\ ipc = "done"
        /\ fi = Len(files)
        /\ \A k \in DOMAIN files : Yielded("debug", "Indexing", k)
        /\ \A k \in DOMAIN files :
              Valid(files[k]) =>
                 \E j \in DOMAIN indexed :
                    \E i \in DOMAIN ilog :
                       ilog[i] = IInfo("info", "Added item", k, indexed[j])

\* file k has been dealt with
FileOver(k) == k < fi \/ (k = fi /\ RunOver)

\* C8: a file that has been dealt with (no write of a favicon having
\* failed) has an error event or an 'Added item' event with its new id; the
\* last file dealt with has an error event if it added nothing to the
\* store, and 'Added item' with the id it added otherwise.
C8_EveryFileReports ==
    faults = 0 =>
        /\ \A k \in DOMAIN files : FileOver(k) => (HasError(k) \/ HasAdded(k))
        /\ (fi > 0 /\ FileOver(fi)) =>
              IF DOMAIN meta = DOMAIN meta0
              THEN HasError(fi)
              ELSE \E id \in DOMAIN meta \ DOMAIN meta0 :
                      \E i \in DOMAIN ilog :
                         ilog[i] = IInfo("info", "Added item", fi, id)

----------------------------------------------------------------------------
(* Properties of FavIconCacher.run                                         *)

\* the member of the archive a relative icon URL names
IconMember(index, url) ==
    CHOOSE m \in ArchiveMembers(index) :
        m.name = (IF IsMaff(index) THEN DirName(MaffIndexFile(index)) ELSE <<>>)
                    \o url.path

\* the icon an item named when the run began: its bytes and its MIME type,
\* from the network, from a member of the archive, or from a plain file
IconSource(id) ==
    IF meta0[id].icon.scheme # "" THEN UrlOpen(meta0[id].icon)
    ELSE IF IsArchive(meta0[id].index)
         THEN Response("", GuessType(meta0[id].icon.path),
                       IconMember(meta0[id].index, meta0[id].icon).bytes)
    ELSE Response("", GuessType(meta0[id].icon.path),
                  fsStart[1][NormPath(data_dir \o meta0[id].index \o <<"..">>
                                         \o meta0[id].icon.path)])

\* C9, as stated: two icons that have been cached and have the same bytes
\* are in one cache file, whatever their items, URLs and kinds of source.
C9_IdenticalBytesOneFile ==
    \A i \in DOMAIN cached, j \in DOMAIN cached :
        IconSource(i).bytes = IconSource(j).bytes => cached[i] = cached[j]

\* C9, amended: two icons that have been cached, have the same bytes and
\* MIME types of the same extension are in one cache file, which holds
\* those bytes, whatever their items, URLs and kinds of source.
C9_IdenticalBytesAndExtensionOneFile ==
    \A i \in DOMAIN cached, j \in DOMAIN cached :
        (/\ IconSource(i).bytes = IconSource(j).bytes
         /\ MimeToExtension(IconSource(i).mime) = MimeToExtension(IconSource(j).mime))
        => /\ cached[i] = cached[j]
           /\ fs[cached[i]] = IconSource(i).bytes

\* an icon read from an archive and one fetched from a server, of the same
\* bytes and extension, have been cached for two items
C9_Witness ==
    /\ fpc = "done"
    /\ DOMAIN cached = {"i1", "i2"}
    /\ meta0["i1"].icon.scheme = ""
    /\ IsArchive(meta0["i1"].index)
    /\ meta0["i2"].icon = IcoUrl
    /\ IconSource("i1").bytes = IconSource("i2").bytes
    /\ cached["i1"] = cached["i2"]

\* the file an item's icon names, relative to the directory of its content
IconTarget(id) == NormPath(data_dir \o DirName(meta[id].index) \o meta[id].icon.path)

\* the same absolute URL is the icon of both items, both have been cached in
\* this order, and the cache did not hold the icon when the run began
SameUrlCachedTwice ==
    /\ fpc = "done"
    /\ fav.item_ids = <<"i1", "i2">>
    /\ meta0["i1"].icon = meta0["i2"].icon
    /\ meta0["i1"].icon.scheme # ""
    /\ DOMAIN cached = {"i1", "i2"}
    /\ cached["i1"] \notin DOMAIN fsStart[1]

\* C10: when the same icon URL has been cached for two items, one file has
\* been added to the cache; the first item's caching has written it (after
\* the call that backs up what is there), the second has reused it with
\* neither a write nor a backup; and the icon of either item, taken relative
\* to the directory of the item's content, is that file.
C10_SameUrlOneCacheFile ==
    SameUrlCachedTwice =>
        /\ cached["i1"] = cached["i2"]
        /\ DOMAIN fs \ DOMAIN fsStart[1] = {cached["i1"]}
        /\ ops = <<Op("backup", cached["i1"], 0), Op("write", cached["i1"], 0)>>
        /\ \E a \in DOMAIN ilog, b \in DOMAIN ilog :
              /\ a < b
              /\ ilog[a] = IInfo("info", "Saving favicon", 0, "i1")
              /\ ilog[b] = IInfo("info", "Use saved favicon", 0, "i2")
        /\ IconTarget("i1") = cached["i1"]
        /\ IconTarget("i2") = cached["i1"]
        /\ meta["i1"].icon.scheme = "" /\ meta["i2"].icon.scheme = ""

\* one server's icon has been cached for a page at the top of the data
\* directory and for a page in a directory below it
C10_Witness ==
    /\ SameUrlCachedTwice
    /\ meta0["i1"].icon = IcoUrl
    /\ DirName(meta["i1"].index) # DirName(meta["i2"].index)
    /\ meta["i1"].icon # meta["i2"].icon

\* an error event has been yielded by the cacher for the item
IconError(id) ==
    \E i \in DOMAIN ilog : ilog[i].level = "error" /\ ilog[i].id = id

\* the cacher is past the item at position k of item_ids
IconOver(k) == k < fav.k \/ (k = fav.k /\ fpc \in {"done", "raised"})

\* C11: an item for which an error event has been yielded keeps the icon it
\* had; no exception ends the run (no write of a cache file having failed);
\* and an item the cacher is past, whose plain icon file cannot be read, has
\* an error event.
C11_IconFailureIsPerItem ==
    /\ \A id \in DOMAIN meta0 : IconError(id) => meta[id].icon = meta0[id].icon
    /\ faults = 0 => fpc # "raised"
    /\ \A k \in DOMAIN fav.item_ids :
          (/\ IconOver(k)
           /\ fav.item_ids[k] \in DOMAIN meta0
           /\ CacheFaviconOutcome(fav.item_ids[k]).kind = "readerror")
          => IconError(fav.item_ids[k])

----------------------------------------------------------------------------
(* The item of a book, in every shape, as the tree walk renders it         *)

ItemId == "20200101000000000"

ItemTypes ==
    {"", "folder", "file", "image", "note", "postit", "bookmark", "separator"}

ItemIndexes == { <<>>, <<ItemId, "index.html">>, <<ItemId \o ".maff">> }

ItemTitles == {"", "Title"}

ItemSources ==
    { EmptyUrl, Url("http", "example.com", <<"page">>, ""),
      Url("http", "example.com", <<"page">>, "1") }

ItemIcons ==
    { EmptyUrl, Url("http", "example.com", <<"favicon.ico">>, ""),
      Url("", "", <<"favicon.ico">>, ""),
      Url("", "", <<".wsb", "tree", "favicon", "0123.ico">>, "") }

\* a book whose root has one child, an item of any shape
InitItems ==
    /\ \E t \in ItemTypes, x \in ItemIndexes, ti \in ItemTitles,
          so \in ItemSources, ic \in ItemIcons :
          meta = (ItemId :> Item(t, x, ti, so, ic))
    /\ toc = ("root" :> <<ItemId>>)
    /\ WalkIdle
    /\ BuildIdle
    /\ IndexIdle
    /\ FavIdle
    /\ GenIdle
    /\ DictIdle
    /\ NoEarlierRun

SpecItems == InitItems /\ [][NextWalk]_vars

\* StaticSiteGenerator.ITEM_TYPE_ICON
ITEM_TYPE_ICON ==
    [t \in {"", "folder", "file", "image", "note", "postit"} |->
        CASE t = "" -> <<"icon", "item.png">>
          [] t = "folder" -> <<"icon", "fclose.png">>
          [] t = "file" -> <<"icon", "file.png">>
          [] t = "image" -> <<"icon", "file.png">>
          [] t = "note" -> <<"icon", "note.png">>
          [] OTHER -> <<"icon", "postit.png">>]

\* the src of the <img> the index page shows for an item event: its icon,
\* or default_icons[type] when it has none
DisplayedIcon(e) ==
    IF e.icon # EmptyUrl THEN e.icon
    ELSE IF e.type \in DOMAIN ITEM_TYPE_ICON
         THEN Url("", "", ITEM_TYPE_ICON[e.type], "")
    ELSE EmptyUrl

----------------------------------------------------------------------------
(* Properties of the rendered item *)

\* the events of items
ItemEvents == {i \in DOMAIN events : events[i].event \in {"start", "end"}}

\* the tree-relative URL of a file or a directory of the data directory
TreeRelative(path) == GetRelativeUrl(data_dir \o path, tree_dir)

\* C12: the href of an item event is empty for a folder and a separator;
\* the stored source for a bookmark with a source, index or not; otherwise,
\* for an item with an index, the tree-relative URL of the index file with
\* the fragment of the source, if it has one; and empty in every other case.
C12_HrefFollowsTable ==
    \A i \in ItemEvents :
        LET m == meta[events[i].id]
            href == events[i].url
        IN  /\ m.type \in {"folder", "separator"} => href = EmptyUrl
            /\ (m.type = "bookmark" /\ m.source # EmptyUrl) => href = m.source
            /\ (/\ m.type \notin {"folder", "separator"}
                /\ ~(m.type = "bookmark" /\ m.source # EmptyUrl)
                /\ m.index # <<>>)
               => /\ href.scheme = "" /\ href.netloc = ""
                  /\ href.path = TreeRelative(m.index)
                  /\ href.fragment = m.source.fragment
            /\ (/\ m.type \notin {"folder", "separator"}
                /\ ~(m.type = "bookmark" /\ m.source # EmptyUrl)
                /\ m.index = <<>>)
               => href = EmptyUrl

\* a page with an index and a source that has a fragment has been rendered
C12_Witness ==
    /\ wpc = "done"
    /\ \E i \in ItemEvents :
          /\ meta[events[i].id].type = ""
          /\ meta[events[i].id].index # <<>>
          /\ meta[events[i].id].source.fragment = "1"
          /\ events[i].url.fragment = "1"
          /\ events[i].url.path = <<"..", "..", ItemId, "index.html">>

\* C13: an event of an item that is no separator has a title that is not
\* empty, the stored title or, if that is empty, the id; an event of a
\* separator has the stored title, an empty href and an empty icon.
C13_TitleOrId ==
    \A i \in ItemEvents :
        LET m == meta[events[i].id]
            e == events[i]
        IN  IF m.type # "separator"
            THEN /\ e.title # ""
                 /\ e.title = (IF m.title # "" THEN m.title ELSE e.id)
            ELSE /\ e.title = m.title
                 /\ e.url = EmptyUrl
                 /\ e.icon = EmptyUrl

\* an item without a title, no separator, has been rendered under its id
C13_Witness ==
    /\ wpc = "done"
    /\ \E i \in ItemEvents :
          /\ meta[events[i].id].type # "separator"
          /\ meta[events[i].id].title = ""
          /\ events[i].title = ItemId

\* C14: the icon of an event of an item that is no separator is the stored
\* icon if that has a scheme; the stored icon after the tree-relative URL
\* of the directory of the index file (of the data directory if there is no
\* index) if it is not empty and has no scheme; and empty if the stored
\* icon is empty, where the page shows the default icon of the item's type.
C14_IconFollowsTable ==
    \A i \in ItemEvents :
        LET m == meta[events[i].id]
            e == events[i]
        IN  m.type # "separator" =>
              /\ (m.icon # EmptyUrl /\ m.icon.scheme # "") => e.icon = m.icon
              /\ (m.icon # EmptyUrl /\ m.icon.scheme = "") =>
                    /\ e.icon.path = TreeRelative(DirName(m.index)) \o m.icon.path
                    /\ m.index = <<>> => e.icon.path = TreeRelative(<<>>) \o m.icon.path
                    /\ e.icon.scheme = ""
              /\ m.icon = EmptyUrl =>
                    /\ e.icon = EmptyUrl
                    /\ m.type = "" => DisplayedIcon(e).path = <<"icon", "item.png">>
                    /\ m.type = "folder" => DisplayedIcon(e).path = <<"icon", "fclose.png">>
                    /\ m.type = "file" => DisplayedIcon(e).path = <<"icon", "file.png">>
                    /\ m.type = "note" => DisplayedIcon(e).path = <<"icon", "note.png">>
                    /\ m.type = "postit" => DisplayedIcon(e).path = <<"icon", "postit.png">>

\* an icon in the favicon cache has been rendered for an item in a
\* directory of its own
C14_Witness ==
    /\ wpc = "done"
    /\ \E i \in ItemEvents :
          /\ meta[events[i].id].index = <<ItemId, "index.html">>
          /\ meta[events[i].id].icon.path = <<"favicon.ico">>
          /\ meta[events[i].id].icon.scheme = ""
          /\ events[i].icon.path = <<"..", "..", ItemId, "favicon.ico">>

----------------------------------------------------------------------------
(* generate(): one action from each yield to the next                      *)

\* an Info event of generate(): the position in the books it is about (0:
\* none) and the book id there
GInfo(lv, what, k, book) == [level |-> lv, what |-> what, k |-> k, book |-> book]

\* a call generate() makes for the book at position k (0: on the host), or
\* an exception raised while that book is processed
Call(name, k) == [call |-> name, k |-> k]

\* `book_ids or host.books`, with the fallback left out
BookListRequestedOnly == gcfg.book_ids

\* line 293: book_ids or host.books
BookList == IF gcfg.book_ids = <<>> THEN gcfg.books ELSE gcfg.book_ids

Configured(b) == \E i \in DOMAIN gcfg.books : gcfg.books[i] = b

\* lines 325-327: the finally clause
Finally(calls) ==
    IF gcfg.no_backup THEN calls ELSE Append(calls, Call("init_backup(False)", 0))

\* line 308, taking the lock whatever no_lock says
AcquiredAlways(calls, k) == Append(calls, Call("acquire", k))

\* line 308: lh = nullcontext() if no_lock else book.get_tree_lock().acquire()
Acquired(calls, k) ==
    IF gcfg.no_lock THEN calls ELSE Append(calls, Call("acquire", k))

\* the lock of the book at position k is held
Held(calls, k) ==
    Cardinality({i \in DOMAIN calls : calls[i] = Call("acquire", k)})
        > Cardinality({i \in DOMAIN calls : calls[i] = Call("release", k)})

\* line 309: leaving the with block
Released(calls, k) ==
    IF Held(calls, k) THEN Append(calls, Call("release", k)) ELSE calls

\* `except Exception` that catches nothing
CaughtNever(kind) == FALSE

\* line 318: `except Exception` catches an exception, not an interrupt
\* (KeyboardInterrupt, GeneratorExit)
Caught(kind) == kind = "raise"

\* lines 293-301 and 325-330: the first yield of what follows the book at
\* position k -- the warning or 'Loading book' of the next position, or
\* the finally clause and 'Time spent'
GenNextBook(k, log, calls) ==
    /\ grun' = 0
    /\ IF k < Len(BookList)
       THEN /\ gk' = k + 1
            /\ gcalls' = calls
            /\ IF Configured(BookList[k + 1])
               THEN /\ gpc' = "loading"
                    /\ glog' = Append(log, GInfo("debug", "Loading book", k + 1,
                                                 BookList[k + 1]))
               ELSE /\ gpc' = "warned"
                    /\ glog' = Append(log, GInfo("warn", "Skipped invalid book",
                                                 k + 1, BookList[k + 1]))
       ELSE /\ gk' = k
            /\ gcalls' = Finally(calls)
            /\ gpc' = "time"
            /\ glog' = Append(log, GInfo("info", "Time spent", 0, ""))

\* lines 318-322: how the try statement of a book ends -- 'critical' for an
\* exception that is caught, 'Done.' for none; what is not caught leaves
\* generate() through the finally clause
GenBookEnds(kind, calls) ==
    /\ gk' = gk
    /\ grun' = grun
    /\ IF kind = "return"
       THEN /\ gpc' = "donebook"
            /\ gcalls' = calls
            /\ glog' = Append(glog, GInfo("info", "Done.", gk, BookList[gk]))
       ELSE IF Caught(kind)
       THEN /\ gpc' = "critical"
            /\ gcalls' = Append(calls, Call("exception", gk))
            /\ glog' = Append(glog, GInfo("critical", "exception", gk, BookList[gk]))
       ELSE /\ gpc' = "raised"
            /\ gcalls' = Finally(Append(calls,
                              Call(IF kind = "raise" THEN "exception" ELSE "interrupt", gk)))
            /\ glog' = glog

\* generate() is called and pulled for the first time: lines 283-289
GenStart ==
    /\ gpc = "new"
    /\ IF gcfg.no_backup
       THEN GenNextBook(0, glog, gcalls)
       ELSE /\ gpc' = "prepared"
            /\ gcalls' = Append(gcalls, Call("init_backup", 0))
            /\ glog' = Append(glog, GInfo("info", "Prepared backup", 0, ""))
            /\ UNCHANGED <<gk, grun>>
    /\ UNCHANGED gcfg
    /\ UNCHANGED <<walkVars, buildVars, indexVars, favVars, dictVars, fruns>>

\* resumed after 'Prepared backup': the try statement is entered
GenAfterPrepared ==
    /\ gpc = "prepared"
    /\ GenNextBook(0, glog, gcalls)
    /\ UNCHANGED gcfg
    /\ UNCHANGED <<walkVars, buildVars, indexVars, favVars, dictVars, fruns>>

\* resumed after 'Skipped invalid book', 'Skipped book (no_tree)' or the
\* line of dashes: the next book
GenAfterBook ==
    /\ gpc \in {"warned", "skipped", "dashes"}
    /\ GenNextBook(gk, glog, gcalls)
    /\ UNCHANGED gcfg
    /\ UNCHANGED <<walkVars, buildVars, indexVars, favVars, dictVars, fruns>>

\* resumed after 'Loading book': lines 303-307
GenAfterLoading ==
    /\ gpc = "loading"
    /\ IF BookList[gk] \in gcfg.no_tree
       THEN /\ gpc' = "skipped"
            /\ glog' = Append(glog, GInfo("info", "Skipped book (no_tree)", gk,
                                          BookList[gk]))
       ELSE /\ gpc' = "caching"
            /\ glog' = Append(glog, GInfo("info", "Caching book", gk, BookList[gk]))
    /\ UNCHANGED <<gcfg, gk, grun, gcalls>>
    /\ UNCHANGED <<walkVars, buildVars, indexVars, favVars, dictVars, fruns>>

\* resumed after 'Caching book': lines 308-316 up to the first yield of
\* generator.run(), or to the end of the try statement.  The lock may not
\* be had ("lockfail"); StaticSiteGenerator() loads the metadata and TOC
\* files, which may fail ("loadfail").
GenAfterCaching ==
    /\ gpc = "caching"
    /\ \E out \in {"ok"} \cup (IF gcfg.no_lock THEN {} ELSE {"lockfail"})
                         \cup (IF gcfg.static_site THEN {"loadfail"} ELSE {}) :
          CASE out = "lockfail" -> GenBookEnds("raise", gcalls)
            [] out = "loadfail" ->
                  GenBookEnds("raise",
                     Released(Append(Acquired(gcalls, gk), Call("load", gk)), gk))
            [] OTHER ->
                  IF gcfg.static_site
                  THEN /\ gpc' = "running"
                       /\ grun' = 1
                       /\ gk' = gk
                       /\ gcalls' = Append(Acquired(gcalls, gk), Call("load", gk))
                       /\ glog' = Append(glog, GInfo("info", "Generating static site pages",
                                                     gk, BookList[gk]))
                  ELSE GenBookEnds("return", Released(Acquired(gcalls, gk), gk))
    /\ UNCHANGED gcfg
    /\ UNCHANGED <<walkVars, buildVars, indexVars, favVars, dictVars, fruns>>

\* resumed after an event of generator.run(): run() checks or writes an
\* artifact and yields again, returns, or is left by an exception or an
\* interrupt
GenAfterRunning ==
    /\ gpc = "running"
    /\ \E out \in {"return", "raise", "interrupt"}
                     \cup (IF grun < MaxRunYields THEN {"yield"} ELSE {}) :
          IF out = "yield"
          THEN /\ gpc' = "running"
               /\ grun' = grun + 1
               /\ gk' = gk
               /\ gcalls' = Append(gcalls, Call("write", gk))
               /\ glog' = Append(glog, GInfo("info", "Generating", gk, BookList[gk]))
          ELSE GenBookEnds(out, Released(gcalls, gk))
    /\ UNCHANGED gcfg
    /\ UNCHANGED <<walkVars, buildVars, indexVars, favVars, dictVars, fruns>>

\* resumed after 'critical' or 'Done.': line 324
GenAfterEnded ==
    /\ gpc \in {"critical", "donebook"}
    /\ gpc' = "dashes"
    /\ glog' = Append(glog, GInfo("info", "----", gk, BookList[gk]))
    /\ UNCHANGED <<gcfg, gk, grun, gcalls>>
    /\ UNCHANGED <<walkVars, buildVars, indexVars, favVars, dictVars, fruns>>

\* resumed after 'Time spent': generate() returns
GenAfterTime ==
    /\ gpc = "time"
    /\ gpc' = "end"
    /\ UNCHANGED <<gcfg, gk, grun, glog, gcalls>>
    /\ UNCHANGED <<walkVars, buildVars, indexVars, favVars, dictVars, fruns>>

\* the yields inside the try statement of lines 291-327
InTry == {"warned", "skipped", "dashes", "loading", "caching", "running",
          "critical", "donebook"}

\* the consumer closes the stream where it is suspended: GeneratorExit is
\* raised at that yield, and the with and finally blocks around it run
GenClose ==
    /\ gpc \in InTry \cup {"prepared", "time"}
    /\ gpc' = "closed"
    /\ gcalls' = IF gpc \in InTry THEN Finally(Released(gcalls, gk)) ELSE gcalls
    /\ UNCHANGED <<gcfg, gk, grun, glog>>
    /\ UNCHANGED <<walkVars, buildVars, indexVars, favVars, dictVars, fruns>>

NextGen ==
    \/ GenStart
    \/ GenAfterPrepared
    \/ GenAfterBook
    \/ GenAfterLoading
    \/ GenAfterCaching
    \/ GenAfterRunning
    \/ GenAfterEnded
    \/ GenAfterTime
    \/ GenClose

\* The hosts generate() is called on: one or two books, any of them marked
\* no_tree; the ids asked for are configured or not.
InitGen ==
    /\ meta = <<>>
    /\ toc = <<>>
    /\ WalkIdle
    /\ BuildIdle
    /\ IndexIdle
    /\ FavIdle
    /\ DictIdle
    /\ NoEarlierRun
    /\ \E books \in {<<"">>, <<"", "id1">>} :
          \E nt \in SUBSET {books[i] : i \in DOMAIN books},
             ids \in SeqsUpTo({"", "id1", "id3"}, MaxBooks),
             nb \in BOOLEAN, nl \in BOOLEAN, ss \in BOOLEAN :
             gcfg = [books |-> books, no_tree |-> nt, book_ids |-> ids,
                     no_backup |-> nb, no_lock |-> nl, static_site |-> ss]
    /\ gpc = "new"
    /\ gk = 0
    /\ grun = 0
    /\ glog = <<>>
    /\ gcalls = <<>>

SpecGen == InitGen /\ [][NextGen]_vars

----------------------------------------------------------------------------
(* Properties of generate()                                                *)

\* the events about the book at position k that say `what`
EventsOf(k, what) == {i \in DOMAIN glog : glog[i].k = k /\ glog[i].what = what}

\* the calls of one kind made for the book at position k
CallsOf(k, name) == {i \in DOMAIN gcalls : gcalls[i] = Call(name, k)}

\* the stream of generate() has ended: exhausted, left by an exception or
\* closed by its consumer
StreamOver == gpc \in {"end", "closed", "raised"}

\* the ids generate() was asked for name a book that is configured
Asked(k) == IF gcfg.book_ids = <<>> THEN gcfg.books[k] ELSE gcfg.book_ids[k]

AskedLen == IF gcfg.book_ids = <<>> THEN Len(gcfg.books) ELSE Len(gcfg.book_ids)

\* C15: generate() handles the requested book ids in the order given.  An id
\* that is not a configured book gets exactly one warn event, no other event
\* and no call; every other requested position gets its 'Loading book'
\* event and is then cached or skipped as no_tree.  With no ids given the
\* positions are the configured books.  A stream that is exhausted has
\* handled every position.
C15_RequestedBooksInOrder ==
    /\ gk <= AskedLen
    /\ \A i \in DOMAIN glog : glog[i].k > 0 =>
          /\ glog[i].k <= gk
          /\ glog[i].book = Asked(glog[i].k)
          /\ \A j \in DOMAIN glog : (i < j /\ glog[j].k > 0) => glog[i].k <= glog[j].k
    /\ \A k \in 1..gk :
          IF Configured(Asked(k))
          THEN /\ Cardinality(EventsOf(k, "Loading book")) = 1
               /\ EventsOf(k, "Skipped invalid book") = {}
               /\ (k < gk \/ gpc = "end") =>
                     \/ gpc \in {"closed", "raised"}
                     \/ EventsOf(k, "Caching book") # {}
                     \/ EventsOf(k, "Skipped book (no_tree)") # {}
          ELSE /\ Cardinality(EventsOf(k, "Skipped invalid book")) = 1
               /\ \A i \in DOMAIN glog : glog[i].k = k => glog[i].level = "warn"
               /\ \A i \in DOMAIN gcalls : gcalls[i].k # k
    /\ gpc = "end" => gk = AskedLen

\* an unknown id was warned about and the configured one after it cached
C15_Witness ==
    /\ gpc = "end"
    /\ gcfg.book_ids = <<"id3", "">>
    /\ EventsOf(1, "Skipped invalid book") # {}
    /\ EventsOf(2, "Done.") # {}

\* the processing of the book at position k is over
BookOver(k) ==
    \/ k < gk
    \/ k = gk /\ gpc \in {"warned", "skipped", "critical", "donebook", "dashes",
                          "time", "end", "closed", "raised"}

\* the book at position k is one generate() takes no lock for
NoLockFor(k) ==
    \/ gcfg.no_lock
    \/ ~Configured(BookList[k])
    \/ BookList[k] \in gcfg.no_tree

\* C16: for every book generate() processes the tree lock is acquired
\* exactly once, before the book's metadata and TOC are loaded or an
\* artifact is written, and released exactly once when the processing of
\* the book ends, normally or not, before anything is done for the next
\* book; with no_lock, or for a no_tree book, it is never acquired.
C16_TreeLockPerBook ==
    /\ \A i, j \in DOMAIN gcalls :
          (i < j /\ gcalls[i].k > 0 /\ gcalls[j].k > 0) => gcalls[i].k <= gcalls[j].k
    /\ \A k \in 1..gk :
          IF NoLockFor(k)
          THEN CallsOf(k, "acquire") = {} /\ CallsOf(k, "release") = {}
          ELSE /\ Cardinality(CallsOf(k, "acquire")) <= 1
               /\ Cardinality(CallsOf(k, "release")) <= Cardinality(CallsOf(k, "acquire"))
               /\ \A i \in CallsOf(k, "load") \cup CallsOf(k, "write") :
                     /\ \E j \in CallsOf(k, "acquire") : j < i
                     /\ \A j \in CallsOf(k, "release") : i < j
               /\ (EventsOf(k, "Done.") # {} \/ EventsOf(k, "Generating static site pages") # {})
                     => Cardinality(CallsOf(k, "acquire")) = 1
               /\ BookOver(k) =>
                     Cardinality(CallsOf(k, "release")) = Cardinality(CallsOf(k, "acquire"))

\* the first book was written under its lock and the lock released before
\* the lock of the second was taken
C16_Witness ==
    /\ \E a \in CallsOf(1, "acquire"), w \in CallsOf(1, "write"),
          r \in CallsOf(1, "release"), b \in CallsOf(2, "acquire") :
          a < w /\ w < r /\ r < b
    /\ gpc = "end"

\* C17: unless no_backup is set the backup is initialised exactly once,
\* before any book is processed, and finalised exactly once; it is
\* finalised by the time the stream ends, however it ends; with no_backup
\* neither call is made.
C17_BackupInitialisedAndFinalised ==
    /\ gcfg.no_backup =>
          /\ CallsOf(0, "init_backup") = {}
          /\ CallsOf(0, "init_backup(False)") = {}
    /\ (~gcfg.no_backup /\ gpc # "new") =>
          /\ gcalls # <<>>
          /\ gcalls[1] = Call("init_backup", 0)
          /\ Cardinality(CallsOf(0, "init_backup")) = 1
          /\ Cardinality(CallsOf(0, "init_backup(False)")) <= 1
    /\ (~gcfg.no_backup /\ StreamOver) =>
          Cardinality(CallsOf(0, "init_backup(False)")) = 1

\* C18: an exception while a book is processed yields exactly one critical
\* event and no 'Done.' for that book, nothing more is done for the book,
\* and the books requested after it are still handled.
C18_ExceptionEndsOnlyThatBook ==
    \A k \in 1..gk :
       CallsOf(k, "exception") # {} =>
          /\ Cardinality(CallsOf(k, "exception")) = 1
          /\ Cardinality(EventsOf(k, "exception")) = 1
          /\ \A i \in EventsOf(k, "exception") : glog[i].level = "critical"
          /\ EventsOf(k, "Done.") = {}
          /\ \A i \in CallsOf(k, "exception"), j \in DOMAIN gcalls :
                gcalls[j].k = k => j <= i
          /\ gpc = "end" =>
                /\ gk = Len(BookList)
                /\ \A n \in (k + 1)..Len(BookList) :
                      \/ EventsOf(n, "Loading book") # {}
                      \/ EventsOf(n, "Skipped invalid book") # {}

\* the first book failed and the second was cached all the same
C18_Witness ==
    /\ gpc = "end"
    /\ CallsOf(1, "exception") # {}
    /\ EventsOf(1, "exception") # {}
    /\ EventsOf(2, "Done.") # {}

----------------------------------------------------------------------------
(* Properties of the order of a run and of its failed writes               *)

\* the place of an artifact in RESOURCES followed by the four pages
Rank ==
    [dst \in Range(RESOURCES \o PAGES) |->
        CHOOSE i \in DOMAIN (RESOURCES \o PAGES) : (RESOURCES \o PAGES)[i] = dst]

\* the 'Checking' events of run r, in the order they were yielded
CheckedIn(r) ==
    SelectSeq(blog, LAMBDA e : e.what = "Checking" /\ e.run = r)

\* the artifacts a run is to deal with
Staged == Range(SubSeq(RESOURCES, 1, MaxResources)) \cup Range(PAGES)

\* C19: a run deals with the static resources first and then with the pages
\* in the order index.html, map.html, frame.html, search.html, each once;
\* index.html is dealt with if and only if static_index is set; every page
\* dealt with is rendered, and index.html is the only page rendered with a
\* tree walk (map.html is rendered with None).
C19_ResourcesThenPagesInOrder ==
    /\ \A r \in 1..bpc.run :
          \E checked \in {CheckedIn(r)} :
             /\ \A n \in 1..(Len(checked) - 1) :
                   Rank[checked[n].dst] < Rank[checked[n + 1].dst]
             /\ \A n \in DOMAIN checked :
                   checked[n].dst = <<"index.html">> => static_index
             /\ (r < bpc.run \/ bpc.at = "done") =>
                   {checked[n].dst : n \in DOMAIN checked}
                      = {dst \in Staged : dst # <<"index.html">> \/ static_index}
    /\ \A i \in DOMAIN renders :
          /\ renders[i].static_index = "walk" <=> renders[i].dst = <<"index.html">>
          /\ renders[i].dst = <<"map.html">> => renders[i].static_index = NoneVal
    /\ \A dst \in Range(PAGES), r \in 1..bpc.run :
          (Reported("Skipped", dst, r) \/ Reported("Generating", dst, r)) =>
             \E i \in DOMAIN renders : renders[i].dst = dst /\ renders[i].run = r

\* a run with static_index has ended: both index.html and map.html were
\* rendered, after the resources
C19_Witness ==
    /\ bpc.at = "done"
    /\ static_index
    /\ \E i, j \in DOMAIN renders :
          /\ i < j
          /\ renders[i] = [dst |-> <<"index.html">>, run |-> bpc.run,
                           static_index |-> "walk"]
          /\ renders[j] = [dst |-> <<"map.html">>, run |-> bpc.run,
                           static_index |-> NoneVal]
    /\ Reported("Checking", RESOURCES[1], bpc.run)
    /\ Reported("Checking", <<"search.html">>, bpc.run)

\* C20: when the write of a resource or page fails with a filesystem error,
\* at whatever step, there is one error event for that artifact, the
\* artifact is on disk as it was when the run started (with the same bytes,
\* or absent as before), and the run goes on to the remaining artifacts.
C20_FailedWriteLeavesArtifact ==
    \A k \in 1..bpc.k :
       (Finished(k) /\ Reported("Failed to create", Artifacts[k], bpc.run)) =>
          /\ Cardinality({i \in DOMAIN blog :
                             /\ blog[i].level = "error"
                             /\ blog[i].dst = Artifacts[k]
                             /\ blog[i].run = bpc.run}) = 1
          /\ IF Existed(Artifacts[k])
             THEN /\ Fdst(Artifacts[k]) \in DOMAIN fs
                  /\ fs[Fdst(Artifacts[k])] = Before(Artifacts[k])
             ELSE Fdst(Artifacts[k]) \notin DOMAIN fs
          /\ bpc.at = "done" =>
                \A n \in (k + 1)..Len(Artifacts) :
                   Reported("Checking", Artifacts[n], bpc.run)

----------------------------------------------------------------------------
(* Documents that carry the marks of several capture tools                 *)

SavedUrl == Url("http", "example.org", <<"saved">>, "")

StampUrl == Url("http", "example.net", <<"stamped">>, "")

NoComment == BaseFile(<<>>).first

SfComment(source, create) ==
    [NoComment EXCEPT !.kind = "comment", !.sf_match = TRUE, !.sf_dateok = TRUE,
                      !.sf_source = source, !.sf_create = create]

MxComment(source) ==
    [NoComment EXCEPT !.kind = "comment", !.mx_match = TRUE, !.mx_source = source]

\* The documents: the stamp of IE with the meta elements of SavePageWE; the
\* comment of SingleFile with them; them with the comment of MaoXian;
\* data-scrapbook-* attributes beside what the tools left; files whose
\* times cannot be read; and the documents whose indexing yields an error.
DocKinds ==
    { [BaseFile(<<"page.html">>) EXCEPT
          !.ie = [match |-> TRUE, lenok |-> TRUE, source |-> PageUrl],
          !.sp = [url |-> SavedUrl, title |-> "Saved", date |-> "ok",
                  create |-> TsId(5)],
          !.title = "Page", !.links = <<Link("icon", IcoUrl)>>],
      [BaseFile(<<TsId(0) \o ".html">>) EXCEPT
          !.first = SfComment(StampUrl, TsId(6)),
          !.sp = [url |-> SavedUrl, title |-> NoneVal, date |-> "ok",
                  create |-> TsId(5)]],
      [BaseFile(<<TsId(0), "index.html">>) EXCEPT
          !.first = MxComment(StampUrl),
          !.sp = [url |-> SavedUrl, title |-> NoneVal, date |-> "none",
                  create |-> ""],
          !.links = <<Link("icon", DownUrl)>>],
      [BaseFile(<<"page.html">>) EXCEPT
          !.ie = [match |-> TRUE, lenok |-> TRUE, source |-> PageUrl],
          !.sp = [url |-> NoneUrl, title |-> "Saved", date |-> "ok",
                  create |-> TsId(5)],
          !.attrs = [source |-> StampUrl, title |-> "Custom", create |-> TsId(7),
                     comment |-> "kept", index |-> <<"other.html">>]],
      [BaseFile(<<"page.html">>) EXCEPT
          !.first = SfComment(StampUrl, TsId(6)),
          !.attrs = [create |-> "", icon |-> IcoUrl],
          !.links = <<Link("icon", PngUrl)>>],
      [BaseFile(<<"page.html">>) EXCEPT
          !.attrs = [modify |-> TsId(8)], !.ctime = -1, !.mtime = -1],
      [BaseFile(<<TsId(0) \o ".html">>) EXCEPT !.ctime = -1, !.mtime = -1],
      [BaseFile(<<"notes.txt">>) EXCEPT !.ctime = -1, !.mtime = -1],
      BaseFile(<<"notes.txt">>),
      [BaseFile(<<"broken.html">>) EXCEPT !.doc = "none"],
      [BaseFile(<<"untitled.html">>) EXCEPT !.title = Undecodable] }

\* a batch of one document, or of the same document twice
InitDocs ==
    /\ toc = <<>>
    /\ WalkIdle
    /\ BuildIdle
    /\ meta = <<>>
    /\ meta0 = meta
    /\ files \in {<<f>> : f \in DocKinds} \cup {<<f, f>> : f \in DocKinds}
    /\ handlers \in [ie : BOOLEAN, singlefile : BOOLEAN, savepagewe : BOOLEAN,
                     maoxian : BOOLEAN]
    /\ fi = 0
    /\ ipc = "new"
    /\ cur = [id |-> "", synth |-> FALSE, ts |-> 0]
    /\ indexed = <<>>
    /\ now = 0
    /\ ilog = <<>>
    /\ fav = [cache_url |-> TRUE, cache_archive |-> FALSE, cache_file |-> FALSE,
              item_ids |-> <<>>, k |-> 0, caller |-> "run"]
    /\ fpc = "idle"
    /\ floc = NoLoc
    /\ cached = <<>>
    /\ GenIdle
    /\ DictIdle
    /\ NoEarlierRun

SpecDocs == InitDocs /\ [][NextIndex]_vars

----------------------------------------------------------------------------
(* Properties of the id, the extractors and the fields filled in           *)

\* the file at position k of the batch
FileAt(k) == files[k]

\* both documents can be read and name the same id, which is not reserved
SameExplicitId(f, g) ==
    /\ f.exists /\ IsWebpage(f) /\ f.doc = "ok" /\ ~Extracted(f).raised
    /\ g.exists /\ IsWebpage(g) /\ g.doc = "ok" /\ ~Extracted(g).raised
    /\ "id" \in DOMAIN f.attrs /\ "id" \in DOMAIN g.attrs
    /\ f.attrs.id = g.attrs.id
    /\ f.attrs.id \notin SPECIAL_ITEM_ID

\* 'Added item' has been yielded for file k under this id
AddedAs(k, id) ==
    \E i \in DOMAIN ilog : ilog[i] = IInfo("info", "Added item", k, id)

NamesNoId(f) == ~IsWebpage(f) \/ "id" \notin DOMAIN f.attrs

\* what a file is named after: its base name without the extension, or for
\* a file called index.html the name of the directory it is in
NamedAfter(f) ==
    IF f.path[Len(f.path)] = "index.html"
    THEN (IF Len(f.path) > 1 THEN SplitExt(f.path[Len(f.path) - 1])[1] ELSE "")
    ELSE SplitExt(f.path[Len(f.path)])[1]

\* C23: a file that names no id is registered under the name it is named
\* after, when that is a well-formed timestamp id the store did not hold;
\* otherwise under an id synthesized from the clock, which the store did
\* not hold either.
C23_IdFromFileName ==
    (IdSettled /\ NamesNoId(FileAt(fi))) =>
        /\ cur.id \in DOMAIN meta
        /\ cur.id \notin DOMAIN meta0
        /\ meta[cur.id].index = FileAt(fi).path
        /\ IF IdToDatetime(NamedAfter(FileAt(fi))) # -1
                /\ NamedAfter(FileAt(fi)) \notin DOMAIN meta0
           THEN cur.id = NamedAfter(FileAt(fi)) /\ ~cur.synth
           ELSE cur.synth /\ \E n \in 0..20 : n >= cur.ts /\ cur.id = TsId(n)

C23_Witness ==
    /\ ipc = "added"
    /\ FileAt(fi).path = <<TsId(0), "index.html">>
    /\ cur.id = TsId(0)
    /\ ~cur.synth
    /\ meta[TsId(0)].index = <<TsId(0), "index.html">>

\* what each extractor, switched on, sets from the document
IeSets(f) == handlers.ie /\ f.ie.match /\ f.ie.lenok

SinglefileSets(f) ==
    /\ handlers.singlefile
    /\ f.first.kind = "comment" /\ f.first.sf_match /\ f.first.sf_dateok

SavepageweSetsSource(f) == handlers.savepagewe /\ f.sp.url # NoneUrl

SavepageweSetsCreate(f) == handlers.savepagewe /\ f.sp.date = "ok"

MaoxianSets(f) ==
    handlers.maoxian /\ f.first.kind = "comment" /\ f.first.mx_match

\* the source and the creation time of the first extractor, in the order
\* of lines 194-206, that sets one
FirstSource(f) ==
    IF IeSets(f) THEN f.ie.source
    ELSE IF SinglefileSets(f) THEN f.first.sf_source
    ELSE IF SavepageweSetsSource(f) THEN f.sp.url
    ELSE IF MaoxianSets(f) THEN f.first.mx_source
    ELSE NoneUrl

FirstCreate(f) ==
    IF SinglefileSets(f) THEN f.first.sf_create
    ELSE IF SavepageweSetsCreate(f) THEN f.sp.create
    ELSE NoneVal

\* C24: the source and the creation time a document is registered with,
\* when no attribute of the root supplies them, are those of the first
\* extractor in the order IE, SingleFile, SavePageWE, MaoXian that sets
\* them: no later extractor changes what an earlier one has set.
C24_EarlierExtractorWins ==
    (IdSettled /\ IsWebpage(FileAt(fi))) =>
        /\ ("source" \notin DOMAIN FileAt(fi).attrs
                /\ FirstSource(FileAt(fi)) # NoneUrl)
           => meta[cur.id].source = FirstSource(FileAt(fi))
        /\ ("create" \notin DOMAIN FileAt(fi).attrs
                /\ FirstCreate(FileAt(fi)) # NoneVal)
           => meta[cur.id].create = FirstCreate(FileAt(fi))

\* an extractor that is switched on fails on the document
ExtractorFails(f) ==
    /\ f.exists /\ IsWebpage(f) /\ f.doc = "ok"
    /\ \/ (handlers.singlefile \/ handlers.maoxian) /\ f.first.kind = "none"
       \/ /\ handlers.singlefile
          /\ f.first.kind = "comment" /\ f.first.sf_match /\ ~f.first.sf_dateok
       \/ handlers.savepagewe /\ f.sp.date = "bad"

\* C25: a file one of whose extractors fails, and which names no id that is
\* in use, is indexed all the same: once it has been dealt with, 'Added
\* item' has been yielded for it.
C25_FailedExtractorDoesNotBlock ==
    \A k \in DOMAIN files :
        (/\ FileOver(k)
         /\ ExtractorFails(FileAt(k))
         /\ "id" \in DOMAIN FileAt(k).attrs
               => FileAt(k).attrs.id \notin DOMAIN meta0 \cup SPECIAL_ITEM_ID)
        => HasAdded(k)

\* the attributes of the root that are registered as they are: every key
\* but id, which is not a field of the item, and index
KeptAttrs(f) == DOMAIN f.attrs \ {"id", "index"}

\* C26 as stated: every field the attributes of the root supply is
\* registered with the value of the attribute.
C26_AttributeValueIsRegistered ==
    (IdSettled /\ IsWebpage(FileAt(fi))) =>
        \A k \in DOMAIN FileAt(fi).attrs \ {"id"} :
            meta[cur.id][k] = FileAt(fi).attrs[k]

\* C26: a field other than index that the attributes of the root supply is
\* registered with the value of the attribute, whatever the extractors
\* found: the type and the times when the value is not empty, the icon
\* until the cacher has put the cached file in its place; index is the
\* path of the file whatever the attribute says.
C26_ExplicitAttributesWin ==
    (IdSettled /\ IsWebpage(FileAt(fi))) =>
        /\ \A k \in KeptAttrs(FileAt(fi)) :
              IF k = "icon"
              THEN (ipc = "favicon" /\ fpc = "caching")
                       => meta[cur.id].icon = FileAt(fi).attrs.icon
              ELSE IF k \in {"type", "create", "modify"}
                   THEN FileAt(fi).attrs[k] # ""
                           => meta[cur.id][k] = FileAt(fi).attrs[k]
              ELSE meta[cur.id][k] = FileAt(fi).attrs[k]
        /\ meta[cur.id].index = FileAt(fi).path

C26_Witness ==
    /\ ipc = "added"
    /\ handlers.ie /\ handlers.savepagewe
    /\ "source" \in DOMAIN FileAt(fi).attrs
    /\ FirstSource(FileAt(fi)) = PageUrl
    /\ meta[cur.id].source = StampUrl
    /\ meta[cur.id].title = "Custom"
    /\ meta[cur.id].create = TsId(7)
    /\ meta[cur.id].index = <<"page.html">>

\* neither the attributes of the root nor an extractor supplies a title
NoTitleSupplied(f) ==
    \/ ~IsWebpage(f)
    \/ /\ "title" \notin DOMAIN f.attrs
       /\ ~(handlers.savepagewe /\ f.sp.title # NoneVal)

\* the title the item is expected to get: that of the title element, else
\* the last segment of the path of the source, else the id
ExpectedTitle(f, id, source) ==
    IF IsWebpage(f) /\ f.title \notin {NoneVal, "", " ", Undecodable} THEN f.title
    ELSE IF source.scheme \notin {NoneVal, ""} /\ source.path # <<>>
         THEN source.path[Len(source.path)]
    ELSE id

\* C27: an item for which no title is supplied has the text of the title
\* element, else the last segment of the path of its source, else its id.
C27_TitleFallsBackToId ==
    (ipc \in {"favicon", "added"} /\ NoTitleSupplied(FileAt(fi))) =>
        meta[cur.id].title = ExpectedTitle(FileAt(fi), cur.id, meta[cur.id].source)

\* the times the document supplies: NoneVal or "" when it supplies none
Supplied(f) == Extracted(f).m

IsSet(v) == v \notin {NoneVal, ""}

\* the instant an id names, or "" for an id that names none
IdTime(id) == IF IdToDatetime(id) # -1 THEN TsId(IdToDatetime(id)) ELSE ""

FileTime(t) == IF t >= 0 THEN TsId(t) ELSE ""

\* the first of the values that is set, or ""
RECURSIVE FirstSet(_)
FirstSet(vs) ==
    IF vs = <<>> THEN ""
    ELSE IF IsSet(Head(vs)) THEN Head(vs)
    ELSE FirstSet(Tail(vs))

\* C28 as stated: both times are filled from what the document supplies,
\* else the id, else the time of the file (creation for create, change for
\* modify), else the other of the two.
C28_CreateModifyPriority ==
    ipc \in {"favicon", "added"} =>
        /\ meta[cur.id].create
              = FirstSet(<<Supplied(FileAt(fi)).create, IdTime(cur.id),
                           FileTime(FileAt(fi).ctime), Supplied(FileAt(fi)).modify>>)
        /\ meta[cur.id].modify
              = FirstSet(<<Supplied(FileAt(fi)).modify, IdTime(cur.id),
                           FileTime(FileAt(fi).mtime), meta[cur.id].create>>)

\* C28: create is filled from what the document supplies, else the id, else
\* the creation time of the file, else the modify the document supplies;
\* modify from what the document supplies, else the change time of the
\* file, else create as it has been filled (and so, last, the id).
C28_CreateModifyPriorityPerField ==
    ipc \in {"favicon", "added"} =>
        /\ meta[cur.id].create
              = FirstSet(<<Supplied(FileAt(fi)).create, IdTime(cur.id),
                           FileTime(FileAt(fi).ctime), Supplied(FileAt(fi)).modify>>)
        /\ meta[cur.id].modify
              = FirstSet(<<Supplied(FileAt(fi)).modify,
                           FileTime(FileAt(fi).mtime), meta[cur.id].create>>)

C28_Witness ==
    /\ ipc = "added"
    /\ cur.id = TsId(0)
    /\ FileAt(fi).mtime = 4
    /\ ~IsSet(Supplied(FileAt(fi)).modify)
    /\ meta[cur.id].modify = TsId(4)
    /\ meta[cur.id].create = TsId(0)

----------------------------------------------------------------------------
(* Properties of the favicon cache directory and of the icons left alone   *)

\* the operations on files the step has added
NewOps == {i \in DOMAIN ops' : i > Len(ops)}

\* the step leaves the file as it is: there, with the same content, and
\* with no backup and no write of it
Untouched(p) ==
    /\ p \in DOMAIN fs'
    /\ fs'[p] = fs[p]
    /\ \A i \in NewOps : ops'[i].path # p

\* C29: no step of the cacher rewrites, truncates or backs up a file that
\* is in the favicon cache directory; and when the file named by the hash
\* and the extension exists, the step after 'Use saved favicon' writes
\* nothing at all and answers with that file.
C29_CacheFilesAreNeverRewritten ==
    [][/\ \A p \in DOMAIN fs : InFaviconDir(p) => Untouched(p)
       /\ fpc = "usesaved" =>
             /\ floc.fdst \in DOMAIN fs
             /\ fs' = fs
             /\ ops' = ops
             /\ cached'[FavId] = floc.fdst]_vars

C29_Witness ==
    /\ fpc = "done"
    /\ favicon_dir \o <<HashName(<<0>>) \o ".png">> \in DOMAIN fsStart[1]
    /\ \E i \in DOMAIN ilog : ilog[i].what = "Use saved favicon" /\ ilog[i].id = "i1"
    /\ \E i \in DOMAIN ilog : ilog[i].what = "Saving favicon" /\ ilog[i].id = "i2"
    /\ cached["i1"] = favicon_dir \o <<HashName(<<0>>) \o ".png">>
    /\ fs[cached["i1"]] = <<0>>
    /\ \A i \in DOMAIN ops : ops[i].path = cached["i2"]

\* the icon the item named when the run began is empty, scheme-relative, or
\* a pure query or fragment
NothingToCache(id) ==
    \/ meta0[id].icon \in {NoneUrl, EmptyUrl}
    \/ /\ meta0[id].icon.scheme = ""
       /\ (meta0[id].icon.netloc # "" \/ meta0[id].icon.path = <<>>)

\* the icon is of a kind (absolute URL, member of the item's archive, file
\* beside the item) whose flag is off
KindDisabled(id) ==
    /\ ~NothingToCache(id)
    /\ IF meta0[id].icon.scheme # "" THEN ~fav.cache_url
       ELSE IF IsArchive(meta0[id].index) THEN ~fav.cache_archive
       ELSE ~fav.cache_file

LeftAlone(id) == NothingToCache(id) \/ KindDisabled(id)

\* the items of the store the cacher is asked for
AskedItems == {fav.item_ids[k] : k \in DOMAIN fav.item_ids} \cap DOMAIN meta0

\* C30: whatever the flags, an item whose icon is empty, scheme-relative or
\* a pure query or fragment, or of a kind whose flag is off, keeps its icon
\* and is absent from the result, and nothing but debug events is yielded
\* for it (no fetch, no read, no save); a run all of whose items are such
\* leaves the files as they were and performs no operation on them.
C30_DisabledOrEmptyIconsAreLeftAlone ==
    /\ \A id \in DOMAIN meta0 :
          LeftAlone(id) =>
             /\ meta[id].icon = meta0[id].icon
             /\ id \notin DOMAIN cached
             /\ \A i \in DOMAIN ilog : ilog[i].id = id => ilog[i].level = "debug"
             /\ (fav.k \in DOMAIN fav.item_ids /\ fav.item_ids[fav.k] = id)
                   => fpc \in {"caching", "nofavicon", "done"}
    /\ (\A id \in AskedItems : LeftAlone(id)) =>
          /\ fs = fsStart[1]
          /\ ops = <<>>
          /\ fpc # "raised"

C30_Witness ==
    /\ fpc = "done"
    /\ fav.item_ids = <<"i1", "i2">>
    /\ KindDisabled("i1")
    /\ meta0["i1"].icon = IcoUrl
    /\ KindDisabled("i2")
    /\ meta0["i2"].icon.scheme = ""
    /\ fav.cache_archive
    /\ cached = <<>>
    /\ meta = meta0
    /\ Len(ilog) = 2

----------------------------------------------------------------------------
(* A consumer that stops pulling: the generator is closed, or never        *)
(* resumed, at the yield it is suspended at                                *)

\* the files, with the cleanup rolling back what the run has written
UnwoundDiscards(tree) == <<>>

\* The files once GeneratorExit has unwound the suspended frames. No yield
\* of StaticSiteGenerator.run, Indexer.run or FavIconCacher.run is inside a
\* try with a finally clause; those inside an except clause end the
\* handler; those of verify_mime and cache_fh are inside `with r as r:`
\* (indexer.py line 487), which closes the response. No file is touched.
Unwound(tree) == tree

\* StaticSiteGenerator.run is suspended at a yield and is not pulled again
BuildStop ==
    /\ bpc.at \in {"start", "checking", "skipped", "generating", "error"}
    /\ bpc' = [bpc EXCEPT !.at = "stopped"]
    /\ fs' = Unwound(fs)
    /\ UNCHANGED <<ops, static_index, blog, faults, fsStart, renders>>
    /\ UNCHANGED <<walkVars, indexVars, favVars, genVars, dictVars, fruns>>

\* Indexer.run is suspended at a yield of its own, or at one of the cacher
\* it delegates to (line 284), and is not pulled again
IndexStop ==
    /\ ipc \in {"indexing", "error", "titleerror", "favicon", "added"}
    /\ ipc' = "stopped"
    /\ fpc' = IF ipc = "favicon" THEN "stopped" ELSE fpc
    /\ fs' = Unwound(fs)
    /\ UNCHANGED <<meta, ops, faults>>
    /\ UNCHANGED <<files, handlers, fi, cur, indexed, now, meta0>>
    /\ UNCHANGED <<ilog, fav, floc, cached>>
    /\ UNCHANGED otherVars

\* FavIconCacher.run, run by itself, is suspended at a yield and is not
\* pulled again
FavStop ==
    /\ fav.caller = "run"
    /\ fpc \in {"caching", "nofavicon", "skipped", "error", "readerror",
                "usesaved", "saving"}
    /\ fpc' = "stopped"
    /\ fs' = Unwound(fs)
    /\ UNCHANGED <<meta, ops, faults>>
    /\ UNCHANGED indexVars
    /\ UNCHANGED <<ilog, fav, floc, cached>>
    /\ UNCHANGED otherVars

NextStop ==
    \/ NextBuild
    \/ NextIndex
    \/ FavStart
    \/ FavAfterReadError
    \/ BuildStop
    \/ IndexStop
    \/ FavStop

\* one of the three generators is about to run: the site builder on an
\* empty tree directory, the indexer on a batch of documents, or the cacher
\* with every kind of source switched on
InitStop ==
    \/ InitBuild /\ fs = <<>>
    \/ InitDocs
    \/ /\ InitFav
       /\ fav.cache_url /\ fav.cache_archive /\ fav.cache_file
       /\ fav.item_ids = <<"i1", "i2">>
       /\ meta["i2"].icon = IcoUrl

SpecStop == InitStop /\ [][NextStop]_vars

\* a generator has been stopped at a yield
Stopped == bpc.at = "stopped" \/ ipc = "stopped" \/ fpc = "stopped"

\* what the runs have done so far: the files and the operations on them,
\* the store, the ids indexed and cached, the pages rendered, the events
Committed ==
    <<fs, ops, meta, indexed, cached, fi, renders, blog, ilog, faults, floc, fav>>

----------------------------------------------------------------------------
(* Properties of what the cacher accepts and of what it answers            *)

\* the MIME type is missing, or neither an image type nor octet-stream
BadMime(mime) ==
    \/ mime \in {NoneVal, ""}
    \/ ~(IsImageMime(mime) \/ mime = "application/octet-stream")

\* the icon the item named when the run began is an absolute URL that the
\* cacher opens, and whose bytes it gets
Opened(id) ==
    /\ meta0[id].icon \notin {NoneUrl, EmptyUrl}
    /\ meta0[id].icon.scheme # ""
    /\ fav.cache_url
    /\ UrlOpen(meta0[id].icon).err = ""

RejectedMime(id) == Opened(id) /\ BadMime(UrlOpen(meta0[id].icon).mime)

ErrorsOf(id) == {i \in DOMAIN ilog : ilog[i].level = "error" /\ ilog[i].id = id}

\* C31: an icon that has been cached declares an image type or
\* octet-stream; an icon whose bytes are got with no MIME type, or with one
\* of another kind, is answered with one error event about the MIME type,
\* is not in the result and is not announced as saved or reused, and the
\* item keeps its icon; a run that meets only such icons, and icons it
\* leaves alone, creates no file.
C31_OnlyImageMimeIsCached ==
    /\ \A id \in DOMAIN cached : ~BadMime(IconSource(id).mime)
    /\ \A k \in DOMAIN fav.item_ids :
          (fav.item_ids[k] \in DOMAIN meta0 /\ RejectedMime(fav.item_ids[k])) =>
             /\ meta[fav.item_ids[k]].icon = meta0[fav.item_ids[k]].icon
             /\ fav.item_ids[k] \notin DOMAIN cached
             /\ \A i \in DOMAIN ilog :
                   ilog[i].id = fav.item_ids[k] =>
                      /\ ilog[i].what \notin {"Saving favicon", "Use saved favicon"}
                      /\ ilog[i].level = "error" =>
                            ilog[i].what \in {"unknown MIME type",
                                              "invalid image MIME type"}
             /\ IconOver(k) => Cardinality(ErrorsOf(fav.item_ids[k])) = 1
    /\ (\A id \in AskedItems : RejectedMime(id) \/ LeftAlone(id)) =>
          /\ fs = fsStart[1]
          /\ ops = <<>>

C31_Witness ==
    /\ fpc = "done"
    /\ fav.item_ids = <<"i1", "i2">>
    /\ meta0["i1"].icon = HtmlUrl
    /\ RejectedMime("i1")
    /\ ilog[2] = IInfo("error", "invalid image MIME type", 0, "i1")
    /\ meta["i1"].icon = HtmlUrl
    /\ DOMAIN cached = {"i2"}
    /\ DOMAIN fs \ DOMAIN fsStart[1] = {cached["i2"]}

\* the icon the item named when the run began is a path, the item's content
\* is a plain file, and the path taken from the directory of the content
\* leads into the favicon directory
AlreadyInCache(id) ==
    /\ meta0[id].icon \notin {NoneUrl, EmptyUrl}
    /\ meta0[id].icon.scheme = "" /\ meta0[id].icon.netloc = ""
    /\ meta0[id].icon.path # <<>>
    /\ ~IsArchive(meta0[id].index)
    /\ InFaviconDir(NormPath(data_dir \o meta0[id].index \o <<"..">>
                                \o meta0[id].icon.path))

\* C32: with cache_file on, an item of a plain content file whose icon
\* leads into the favicon directory gets debug events only ('already in
\* favicon folder' once the cacher is past it), keeps its icon and is not in
\* the result; a run that meets only such icons, and icons it leaves alone,
\* creates no file and performs no operation on one.
C32_CachedIconIsNotCachedAgain ==
    fav.cache_file =>
        /\ \A k \in DOMAIN fav.item_ids :
              (fav.item_ids[k] \in DOMAIN meta0 /\ AlreadyInCache(fav.item_ids[k])) =>
                 /\ meta[fav.item_ids[k]].icon = meta0[fav.item_ids[k]].icon
                 /\ fav.item_ids[k] \notin DOMAIN cached
                 /\ \A i \in DOMAIN ilog :
                       ilog[i].id = fav.item_ids[k] => ilog[i].level = "debug"
                 /\ IconOver(k) =>
                       \E i \in DOMAIN ilog :
                           ilog[i] = IInfo("debug", "already in favicon folder", 0,
                                           fav.item_ids[k])
                 /\ fav.k = k => fpc \in {"caching", "skipped", "done"}
        /\ (\A id \in AskedItems : AlreadyInCache(id) \/ LeftAlone(id)) =>
              /\ fs = fsStart[1]
              /\ ops = <<>>
              /\ fpc # "raised"

C32_Witness ==
    /\ fpc = "done"
    /\ fav.cache_file
    /\ fav.item_ids = <<"i1", "i2">>
    /\ AlreadyInCache("i1")
    /\ meta0["i1"].index = <<"d", "index.html">>
    /\ ilog[2] = IInfo("debug", "already in favicon folder", 0, "i1")
    /\ meta["i1"] = meta0["i1"]
    /\ "i1" \notin DOMAIN cached

\* C33: an id is in the result of the cacher exactly when the icon of its
\* item is no longer the one it was when the run began; and the icon of an
\* id in the result is a path which, taken from the directory of the item's
\* content, is the cache file the id is mapped to, a file that exists.
C33_ResultIsWhatWasRewritten ==
    /\ DOMAIN cached \subseteq DOMAIN meta0
    /\ \A id \in DOMAIN meta0 :
          /\ (id \in DOMAIN cached) <=> (meta[id].icon # meta0[id].icon)
          /\ id \in DOMAIN cached =>
                /\ meta[id].icon.scheme = "" /\ meta[id].icon.netloc = ""
                /\ IconTarget(id) = cached[id]
                /\ InFaviconDir(cached[id])
                /\ cached[id] \in DOMAIN fs

C33_Witness ==
    /\ fpc = "done"
    /\ fav.item_ids = <<"i1", "i2">>
    /\ meta0["i1"].index = MaffIndex
    /\ meta0["i1"].icon = Url("", "", <<"favicon.ico">>, "")
    /\ DOMAIN cached = {"i1"}
    /\ IconTarget("i1") = cached["i1"]
    /\ meta["i2"].icon = meta0["i2"].icon
    /\ meta0["i2"].icon = IcoUrl

----------------------------------------------------------------------------
(* Properties of the shape of the walk's event stream                      *)

\* the child list of a parent as the TOC holds it, and what is left of it
\* without the ids that are not in the store
TocOf(p) == IF p \in DOMAIN toc THEN toc[p] ELSE <<>>

Kept(ids) == SelectSeq(ids, LAMBDA id : id \in DOMAIN meta)

\* the parent whose children the container opened by event i holds
ContainerParent(i) ==
    LET open == OpenStarts(SubSeq(events, 1, i - 1))
    IN  IF open = <<>> THEN "root" ELSE open[Len(open)]

\* the events after i that close a container of the level of event i
ClosersOf(i) ==
    {j \in DOMAIN events :
        j > i /\ events[j].event = "end-container"
              /\ events[j].level = events[i].level}

FirstOf(S) == CHOOSE j \in S : \A k \in S : j <= k

\* the ids of the items started directly in the container that event i
\* opens and event j closes
DirectStarts(i, j) ==
    LET inside == SelectSeq(SubSeq(events, i + 1, j - 1),
                            LAMBDA e : e.event = "start"
                                          /\ e.level = events[i].level + 1)
    IN  [k \in DOMAIN inside |-> inside[k].id]

\* C34: every item event is about an id that is in the store; a container
\* is opened only for a parent that has a child in the store, and once it
\* is closed the items started directly in it are the parent's children in
\* the order of the TOC, without those that are not in the store; a parent
\* with no child in the store (or no entry in the TOC) has its `end` right
\* after its `start`, and root in that case gives no event at all.
C34_AbsentChildrenAreDropped ==
    /\ \A i \in DOMAIN events :
          events[i].event \in {"start", "end"} => events[i].id \in DOMAIN meta
    /\ \A i \in DOMAIN events :
          events[i].event = "start-container" =>
             /\ Kept(TocOf(ContainerParent(i))) # <<>>
             /\ ClosersOf(i) # {} =>
                   DirectStarts(i, FirstOf(ClosersOf(i)))
                      = Kept(TocOf(ContainerParent(i)))
    /\ \A i \in DOMAIN events :
          (/\ events[i].event = "start"
           /\ Kept(TocOf(events[i].id)) = <<>>
           /\ i < Len(events))
          => events[i + 1] = [events[i] EXCEPT !.event = "end"]
    /\ (wpc = "done" /\ Kept(TocOf("root")) = <<>>) => events = <<>>

C34_Witness ==
    /\ wpc = "done"
    /\ "b" \notin DOMAIN meta
    /\ TocOf("root") = <<"a", "b", "root">>
    /\ Len(events) = 6
    /\ events[2].id = "a" /\ events[4].id = "root"

\* event e closes the open event o
Closes(e, o) ==
    \/ e.event = "end" /\ o.event = "start" /\ o.id = e.id /\ o.level = e.level
    \/ e.event = "end-container" /\ o.event = "start-container"
          /\ o.level = e.level

\* the events that are open, outermost first, after one more event; not
\* ok once a closing event has not closed the innermost open event
Nest(n, e) ==
    IF ~n.ok THEN n
    ELSE IF e.event \in {"start", "start-container"}
         THEN [n EXCEPT !.open = Append(@, e)]
    ELSE IF n.open # <<>> /\ Closes(e, n.open[Len(n.open)])
         THEN [n EXCEPT !.open = SubSeq(@, 1, Len(@) - 1)]
    ELSE [n EXCEPT !.ok = FALSE]

RECURSIVE OpenEvents(_)
OpenEvents(evs) ==
    IF evs = <<>> THEN [ok |-> TRUE, open |-> <<>>]
    ELSE Nest(OpenEvents(SubSeq(evs, 1, Len(evs) - 1)), evs[Len(evs)])

\* C36: the events are well nested (a closing event closes the innermost
\* open one, with the same level, and for an item the same id); an item at
\* depth d has level 2d - 1 and the container of its children level 2d;
\* when the walk is over nothing is open, and the level is 0, as is that of
\* the last event.
C36_EventsAreWellNested ==
    /\ OpenEvents(events).ok
    /\ \A i \in DOMAIN events :
          /\ events[i].event = "start" =>
                events[i].level = 2 * Len(OpenStarts(SubSeq(events, 1, i))) - 1
          /\ events[i].event = "start-container" =>
                events[i].level = 2 * Len(OpenStarts(SubSeq(events, 1, i)))
    /\ wpc = "done" =>
          /\ OpenEvents(events).open = <<>>
          /\ level = 0
          /\ events # <<>> => events[Len(events)].level = 0

C36_Witness ==
    /\ wpc = "done"
    /\ \E i \in DOMAIN events : events[i].event = "start" /\ events[i].level = 5
    /\ \E i \in DOMAIN events :
          events[i].event = "end-container" /\ events[i].level = 4
    /\ events[Len(events)] = ContainerEvent("end-container", 0)

\* C37: an item that is neither root nor among its own ancestors and has a
\* child in the store has its children's container opened right after its
\* `start`, at every occurrence, whether or not it has been shown before;
\* after the walk the ancestor set holds root only.
C37_GuardIsCurrentPath ==
    /\ \A i \in DOMAIN events :
          (/\ events[i].event = "start"
           /\ ~Reoccurs(i)
           /\ Kept(TocOf(events[i].id)) # <<>>
           /\ i < Len(events))
          => events[i + 1] = ContainerEvent("start-container",
                                            events[i].level + 1)
    /\ wpc = "done" => id_chain = {"root"}

C37_Witness ==
    /\ wpc = "done"
    /\ TocOf("root") = <<"a", "a">>
    /\ TocOf("a") = <<"b">>
    /\ Len(SelectSeq(events, LAMBDA e : e.event = "start" /\ e.id = "b")) = 2
    /\ id_chain = {"root"}

----------------------------------------------------------------------------
(* Properties of the items a batch leaves in the store                     *)

\* every field of the item is set
Populated(m) ==
    /\ m.index # <<>>
    /\ m.type # NoneVal /\ m.title # NoneVal
    /\ m.create # NoneVal /\ m.modify # NoneVal
    /\ m.icon # NoneUrl /\ m.source # NoneUrl
    /\ m.comment # NoneVal

\* the ids the run has put into the store: those of the files dealt with,
\* and that of the current file
AddedIds == Range(indexed) \cup (DOMAIN meta \ DOMAIN meta0)

\* C39: wherever the run is suspended, every item it has put into the store
\* has all its fields set.
C39_AddedItemsArePopulated ==
    ipc \in {"indexing", "error", "titleerror", "favicon", "added", "done"} =>
        \A id \in AddedIds : Populated(meta[id])

----------------------------------------------------------------------------
(* FavIconCacher.run once more over the book a run has left                *)

\* FavIconCacher(book, <the same flags>).run(<the same item_ids>) after the
\* first run has returned: a new generator, a new `cached`; the book and
\* its files are as the first run left them
FavAgain ==
    /\ fpc = "done"
    /\ fav.caller = "run"
    /\ fruns = <<>>
    /\ fruns' = <<[cached |-> cached, meta |-> meta, fs |-> fs,
                   events |-> Len(ilog)]>>
    /\ fav' = [fav EXCEPT !.k = 0]
    /\ fpc' = "new"
    /\ cached' = <<>>
    /\ floc' = NoLoc
    /\ UNCHANGED <<meta, ilog, fs, ops, faults>>
    /\ UNCHANGED indexVars
    /\ UNCHANGED <<toc, wpc, stack, level, id_chain, events>>
    /\ UNCHANGED <<static_index, bpc, blog, fsStart, renders>>
    /\ UNCHANGED <<genVars, dictVars>>

NextRerun ==
    \/ NextFav
    \/ FavAgain

InitRerun ==
    /\ InitFav
    /\ fav.item_ids = <<"i1", "i2">>
    /\ meta["i2"].icon = IcoUrl

SpecRerun == InitRerun /\ [][NextRerun]_vars

\* the events of the second run
SecondRunEvents == SubSeq(ilog, fruns[1].events + 1, Len(ilog))

\* C38: in a second run with the same flags, an item the first run cached
\* keeps the icon the first run gave it, the files are as the first run left
\* them, and no error event names the item.
C38_SecondRunChangesNothing ==
    fruns # <<>> =>
        \A id \in DOMAIN fruns[1].cached :
            /\ meta[id].icon = fruns[1].meta[id].icon
            /\ fs = fruns[1].fs
            /\ \A i \in DOMAIN SecondRunEvents :
                  ~(SecondRunEvents[i].level = "error"
                    /\ SecondRunEvents[i].id = id)

----------------------------------------------------------------------------
(* MutatingDict, and an iterator over it                                   *)

DictKeys == {"a", "b"}

DictValues == {1, 2}

DictOp(op, key, value) == [op |-> op, key |-> key, value |-> value]

\* the assignments and deletions among the operations of log
DictWrites(log) == SelectSeq(log, LAMBDA e : e.op \in {"set", "del"})

\* __setitem__ with the test `key not in self` left out
KeysAfterSetAlways(keys, data, key) == Append(keys, key)

\* __setitem__: self._keys after d[key] = value
KeysAfterSet(keys, data, key) ==
    IF key \notin DOMAIN data THEN Append(keys, key) ELSE keys

\* d[key] = value
DictSet ==
    /\ Len(DictWrites(dlog)) < MaxDictOps
    /\ \E key \in DictKeys, value \in DictValues :
          /\ dkeys' = KeysAfterSet(dkeys, ddata, key)
          /\ ddata' = SetItem(ddata, key, value)
          /\ dlog' = Append(dlog, DictOp("set", key, value))
    /\ UNCHANGED <<dit, dseen>>
    /\ UNCHANGED <<walkVars, buildVars, indexVars, favVars, genVars, fruns>>

\* del d[key]: __delitem__ returns NotImplemented and does nothing else
DictDel ==
    /\ Len(DictWrites(dlog)) < MaxDictOps
    /\ \E key \in DictKeys :
          dlog' = Append(dlog, DictOp("del", key, 0))
    /\ UNCHANGED <<ddata, dkeys, dit, dseen>>
    /\ UNCHANGED <<walkVars, buildVars, indexVars, favVars, genVars, fruns>>

\* iter(d): a list iterator over self._keys
DictIter ==
    /\ dit.at = "none"
    /\ dit' = [at |-> "active", i |-> 0]
    /\ dlog' = Append(dlog, DictOp("iter", "", 0))
    /\ UNCHANGED <<ddata, dkeys, dseen>>
    /\ UNCHANGED <<walkVars, buildVars, indexVars, favVars, genVars, fruns>>

\* next(it): the key at the iterator's position in the list as it is now,
\* or StopIteration, after which the iterator stays exhausted
DictNext ==
    /\ dit.at = "active"
    /\ IF dit.i < Len(dkeys)
       THEN /\ dseen' = Append(dseen, dkeys[dit.i + 1])
            /\ dit' = [dit EXCEPT !.i = @ + 1]
            /\ dlog' = dlog
       ELSE /\ dit' = [dit EXCEPT !.at = "done"]
            /\ dlog' = Append(dlog, DictOp("stop", "", 0))
            /\ dseen' = dseen
    /\ UNCHANGED <<ddata, dkeys>>
    /\ UNCHANGED <<walkVars, buildVars, indexVars, favVars, genVars, fruns>>

NextDict ==
    \/ DictSet
    \/ DictDel
    \/ DictIter
    \/ DictNext

\* MutatingDict(): an empty store, no iterator yet
InitDict ==
    /\ meta = <<>>
    /\ toc = <<>>
    /\ WalkIdle
    /\ BuildIdle
    /\ IndexIdle
    /\ FavIdle
    /\ GenIdle
    /\ NoEarlierRun
    /\ DictIdle

SpecDict == InitDict /\ [][NextDict]_vars

\* the keys assigned to in log, each once, in the order of their first
\* assignment
RECURSIVE FirstInsertions(_)
FirstInsertions(log) ==
    IF log = <<>> THEN <<>>
    ELSE LET before == FirstInsertions(SubSeq(log, 1, Len(log) - 1))
             e == log[Len(log)]
         IN  IF e.op = "set" /\ e.key \notin Range(before)
             THEN Append(before, e.key)
             ELSE before

\* the value of the last assignment to key in log
LastValue(log, key) ==
    LET at == {i \in DOMAIN log : log[i].op = "set" /\ log[i].key = key}
    IN  log[CHOOSE i \in at : \A j \in at : j <= i].value

\* the operations made before the iterator was exhausted
BeforeStop ==
    LET at == {i \in DOMAIN dlog : dlog[i].op = "stop"}
    IN  SubSeq(dlog, 1, (CHOOSE i \in at : TRUE) - 1)

\* C35: the keys of the store are those ever assigned to, each once, in the
\* order of their first assignment, and each has the value last assigned to
\* it (so assigning to a key that is there does not move it, and a deletion
\* changes nothing); an iterator has yielded, without repetition, the first
\* keys of that order, and when it is exhausted it has yielded all the keys
\* assigned to until then, those first assigned after it was made included.
C35_IterationFollowsFirstInsertion ==
    /\ dkeys = FirstInsertions(dlog)
    /\ DOMAIN ddata = Range(dkeys)
    /\ \A key \in DOMAIN ddata : ddata[key] = LastValue(dlog, key)
    /\ \A i, j \in DOMAIN dseen : i # j => dseen[i] # dseen[j]
    /\ dit.at = "none" => dseen = <<>>
    /\ dit.at = "active" =>
          /\ Len(dseen) = dit.i
          /\ dseen = SubSeq(dkeys, 1, dit.i)
    /\ dit.at = "done" => dseen = FirstInsertions(BeforeStop)

\* a key is inserted while the iteration is in progress, another is assigned
\* to again and then deleted, and the iteration has come to its end
C35_Witness ==
    /\ dit.at = "done"
    /\ dlog = <<DictOp("set", "b", 1), DictOp("iter", "", 0),
                DictOp("set", "a", 1), DictOp("set", "b", 2),
                DictOp("del", "b", 0), DictOp("stop", "", 0)>>
    /\ dseen = <<"b", "a">>
    /\ ddata = [key \in {"a", "b"} |-> IF key = "b" THEN 2 ELSE 1]

====
